---- MODULE Spec2Model ----
(***************************************************************************)
(* A model of hisorange/s3odm (src/src/s3odm.ts, the exported S3ODM,       *)
(* createCertifier and Repository of lines 1-548).                         *)
(*                                                                         *)
(* JavaScript strings are sequences of one-character strings, so that      *)
(* template literals, substring() and the /\.json$/ and /\/$/ patterns are *)
(* computed as the code computes them.  The object store (the S3 bucket)   *)
(* is the environment: a key-ordered sequence of objects.                  *)
(***************************************************************************)
EXTENDS Integers, Sequences, FiniteSets, TLC

VARIABLES objects, task, signIn, signOut, cache, calls, clock

vars == <<objects, task, signIn, signOut, cache, calls, clock>>

(***************************************************************************)
(* Strings                                                                 *)
(***************************************************************************)
Range(s) == {s[i] : i \in 1..Len(s)}

\* The characters used by the model, in code-unit order (S3 lists keys in
\* binary order of their bytes).
Alphabet ==
  <<" ", "!", "%", "&", "'", "(", ")", "*", "+", "-", ".", "/",
    "0", "1", "2", "3", "4", "5", "6", "7", "8", "9", ":", "=", "?",
    "A", "B", "C", "D", "E", "F", "T", "Z", "_",
    "a", "b", "c", "d", "e", "f", "g", "h", "i", "j", "k", "l", "m", "n", "o", "p", "q",
    "r", "s", "t", "u", "v", "w", "x", "y", "z", "~">>

CharRank == [c \in Range(Alphabet) |-> CHOOSE i \in 1..Len(Alphabet) : Alphabet[i] = c]

RECURSIVE LessFrom(_, _, _)
LessFrom(a, b, i) ==
  IF i > Len(b) THEN FALSE
  ELSE IF i > Len(a) THEN TRUE
  ELSE IF a[i] = b[i] THEN LessFrom(a, b, i + 1)
  ELSE CharRank[a[i]] < CharRank[b[i]]

\* a < b in the binary order of keys
StrLess(a, b) == LessFrom(a, b, 1)

StartsWith(s, p) == Len(p) <= Len(s) /\ SubSeq(s, 1, Len(p)) = p

EndsWith(s, p) == Len(p) <= Len(s) /\ SubSeq(s, Len(s) - Len(p) + 1, Len(s)) = p

\* s.substring(n)
Substring(s, n) == SubSeq(s, n + 1, Len(s))

DotJson == <<".", "j", "s", "o", "n">>

Slash == <<"/">>

\* s.replace(/\.json$/, '')
StripJson(s) == IF EndsWith(s, DotJson) THEN SubSeq(s, 1, Len(s) - Len(DotJson)) ELSE s

Digit == <<"0", "1", "2", "3", "4", "5", "6", "7", "8", "9">>

RECURSIVE toString(_)
\* n.toString() of a natural number
toString(n) == IF n < 10 THEN <<Digit[n + 1]>> ELSE toString(n \div 10) \o <<Digit[(n % 10) + 1]>>

RECURSIVE ParseInt(_)
ParseInt(s) ==
  IF s = <<>> THEN 0
  ELSE 10 * ParseInt(SubSeq(s, 1, Len(s) - 1))
         + (CHOOSE d \in 0..9 : Digit[d + 1] = s[Len(s)])

(***************************************************************************)
(* Documents and JSON                                                      *)
(***************************************************************************)
\* A Document is a record; its fields, in the order JSON.stringify writes them.
Fields == <<"_id", "name">>

\* JSON.stringify(document): the members of the object, one <<name, value>> each
JSONstringify(document) ==
  LET present == SelectSeq(Fields, LAMBDA f : f \in DOMAIN document)
  IN [i \in 1..Len(present) |-> <<present[i], document[present[i]]>>]

\* JSON.parse / Response.json() of a JSON object text
JSONparse(text) ==
  [f \in {text[i][1] : i \in 1..Len(text)} |->
     text[CHOOSE i \in 1..Len(text) :
            text[i][1] = f /\ \A j \in (i + 1)..Len(text) : text[j][1] # f][2]]

\* !document?._id : the field is missing or empty
LacksId(document) == "_id" \notin DOMAIN document \/ document._id = <<>>

WithId(document, _id) ==
  [f \in DOMAIN document \cup {"_id"} |-> IF f = "_id" THEN _id ELSE document[f]]

(***************************************************************************)
(* The object store (environment): objects ordered by key                  *)
(***************************************************************************)
Min(a, b) == IF a < b THEN a ELSE b

HasKey(objs, k) == \E i \in 1..Len(objs) : objs[i].key = k

BodyOf(objs, k) == objs[CHOOSE i \in 1..Len(objs) : objs[i].key = k].text

StoreDelete(objs, k) == SelectSeq(objs, LAMBDA o : o.key # k)

StorePut(objs, k, text) ==
  LET before == SelectSeq(objs, LAMBDA o : StrLess(o.key, k))
      after == SelectSeq(objs, LAMBDA o : StrLess(k, o.key))
  IN before \o <<[key |-> k, text |-> text]>> \o after

RECURSIVE StoreDeleteAll(_, _)
StoreDeleteAll(objs, ks) ==
  IF ks = <<>> THEN objs ELSE StoreDeleteAll(StoreDelete(objs, Head(ks)), Tail(ks))

\* the names of the query parameters the client sends
ListTypeParam == <<"l", "i", "s", "t", "-", "t", "y", "p", "e">>

MaxKeysParam == <<"m", "a", "x", "-", "k", "e", "y", "s">>

PrefixParam == <<"p", "r", "e", "f", "i", "x">>

StartAfterParam == <<"s", "t", "a", "r", "t", "-", "a", "f", "t", "e", "r">>

DeleteParam == <<"d", "e", "l", "e", "t", "e">>

\* URLSearchParams: an ordered list of <<name, value>> pairs
ParamsSet(params, name, value) ==
  IF \E i \in 1..Len(params) : params[i][1] = name
  THEN [i \in 1..Len(params) |-> IF params[i][1] = name THEN <<name, value>> ELSE params[i]]
  ELSE Append(params, <<name, value>>)

ParamsHas(params, name) == \E i \in 1..Len(params) : params[i][1] = name

ParamsGet(params, name) == params[CHOOSE i \in 1..Len(params) : params[i][1] = name][2]

DelimiterParam == <<"d", "e", "l", "i", "m", "i", "t", "e", "r">>

\* the part of a key up to the first delimiter after the prefix, <<>> if none
CommonPrefix(key, prefix, delimiter) ==
  IF delimiter = <<>> \/ ~\E i \in (Len(prefix) + 1)..Len(key) : <<key[i]>> = delimiter
  THEN <<>>
  ELSE SubSeq(key, 1, CHOOSE i \in (Len(prefix) + 1)..Len(key) :
                        /\ <<key[i]>> = delimiter
                        /\ \A j \in (Len(prefix) + 1)..(i - 1) : <<key[j]>> # delimiter)

\* a hit as an element of the result: a Key, or the Prefix it is rolled up in
ListEntry(key, prefix, delimiter) ==
  IF CommonPrefix(key, prefix, delimiter) = <<>> THEN [tag |-> "Key", text |-> key]
  ELSE [tag |-> "Prefix", text |-> CommonPrefix(key, prefix, delimiter)]

\* the entries of the hits, each common prefix once
ListEntries(hits, prefix, delimiter) ==
  SelectSeq([i \in 1..Len(hits) |->
               IF i > 1 /\ ListEntry(hits[i].key, prefix, delimiter)
                             = ListEntry(hits[i - 1].key, prefix, delimiter)
               THEN [tag |-> "", text |-> <<>>]
               ELSE ListEntry(hits[i].key, prefix, delimiter)],
            LAMBDA el : el.tag # "")

\* the keys start-after lets through: those after it, and with a delimiter
\* not those under the common prefix it names
FollowsStart(after, delimiter, key) ==
  \/ after = <<>>
  \/ /\ StrLess(after, key)
     /\ ~(delimiter # <<>> /\ EndsWith(after, delimiter) /\ StartsWith(key, after))

\* the first n elements of a sequence
Take(seq, n) == SubSeq(seq, 1, Min(n, Len(seq)))

\* ListObjectsV2: the keys with the prefix that follow start-after, rolled up
\* at the delimiter, at most max-keys entries in key order, as the elements
\* of a ListBucketResult
ListObjectsV2(objs, params) ==
  LET prefix == ParamsGet(params, PrefixParam)
      maxKeys == ParseInt(ParamsGet(params, MaxKeysParam))
      after == IF ParamsHas(params, StartAfterParam) THEN ParamsGet(params, StartAfterParam)
               ELSE <<>>
      delimiter == IF ParamsHas(params, DelimiterParam) THEN ParamsGet(params, DelimiterParam)
                   ELSE <<>>
      hits == SelectSeq(objs, LAMBDA o :
                StartsWith(o.key, prefix) /\ FollowsStart(after, delimiter, o.key))
  IN <<[tag |-> "Prefix", text |-> prefix]>>
       \o Take(ListEntries(hits, prefix, delimiter), maxKeys)

NoBody == [kind |-> "none", text |-> <<>>]

JsonBody(text) == [kind |-> "json", text |-> text]

XmlBody(elements) == [kind |-> "xml", text |-> elements]

TextBody(text) == [kind |-> "text", text |-> text]

\* The answer of a store that serves the request: its status, its body and
\* the objects it holds afterwards
Serve(objs, req) ==
  CASE req.method = "GET" /\ ParamsHas(req.search, ListTypeParam) ->
         [status |-> 200, body |-> XmlBody(ListObjectsV2(objs, req.search)), objects |-> objs]
    [] req.method = "GET" /\ ~ParamsHas(req.search, ListTypeParam) ->
         IF HasKey(objs, req.path)
         THEN [status |-> 200, body |-> JsonBody(BodyOf(objs, req.path)), objects |-> objs]
         ELSE [status |-> 404, body |-> TextBody(<<"NoSuchKey">>), objects |-> objs]
    [] req.method = "HEAD" ->
         [status |-> IF HasKey(objs, req.path) THEN 200 ELSE 404, body |-> NoBody,
          objects |-> objs]
    [] req.method = "PUT" ->
         [status |-> 200, body |-> NoBody, objects |-> StorePut(objs, req.path, req.body.text)]
    [] req.method = "DELETE" ->
         [status |-> 204, body |-> NoBody, objects |-> StoreDelete(objs, req.path)]
    [] req.method = "POST" ->
         [status |-> 200, body |-> XmlBody(<<>>), objects |-> StoreDeleteAll(objs, req.body.text)]

\* What can happen to one request: the store serves it; the store answers with
\* an error status and leaves its objects alone; the connection fails; signing
\* fails.  (A fifth kind, "answer", is a 200 answer with a listing that the
\* model's objects do not determine; see listIdsPageAny.)
Statuses == {200, 204, 403, 404, 409, 500}

Outcomes(okCode) ==
  {[kind |-> "serve", status |-> 0]}
    \cup {[kind |-> "status", status |-> s] : s \in Statuses \ {okCode}}
    \cup {[kind |-> "neterr", status |-> 0], [kind |-> "signerr", status |-> 0]}

ServeOk == [kind |-> "serve", status |-> 0]

ErrorText == <<"e", "o">>

(***************************************************************************)
(* S3ODM                                                                   *)
(***************************************************************************)
NoError == [type |-> "none", code |-> 0, message |-> <<>>]

\* class HttpException: super(`HTTP Error ${code}`)
\* (a message is the list of the pieces the template joins)
HttpException(code) ==
  [type |-> "HttpException", code |-> code, message |-> <<<<"HTTP Error ">>, toString(code)>>]

FetchError == [type |-> "FetchError", code |-> 0, message |-> <<<<"request failed">>>>]

TypeError == [type |-> "TypeError", code |-> 0, message |-> <<<<"Invalid URL">>>>]

NoReply == [status |-> 0, body |-> NoBody]

\* the bucket of the client
Bucket == <<"b">>

\* the part of a URL string before its query and fragment
BeforeQuery(s) ==
  IF \E i \in 1..Len(s) : s[i] \in {"?", "#"}
  THEN SubSeq(s, 1, (CHOOSE i \in 1..Len(s) :
                       s[i] \in {"?", "#"} /\ \A j \in 1..(i - 1) : s[j] \notin {"?", "#"}) - 1)
  ELSE s

RECURSIVE Segments(_)
\* the segments of a path, the pieces between its slashes
Segments(s) ==
  IF \E i \in 1..Len(s) : s[i] = "/"
  THEN LET i == CHOOSE i \in 1..Len(s) : s[i] = "/" /\ \A j \in 1..(i - 1) : s[j] # "/"
       IN <<SubSeq(s, 1, i - 1)>> \o Segments(SubSeq(s, i + 1, Len(s)))
  ELSE <<s>>

\* a path without its last segment
Popped(path) == IF path = <<>> THEN path ELSE SubSeq(path, 1, Len(path) - 1)

RECURSIVE DotFree(_, _)
\* the URL parser on the segments of a path: '.' is dropped, '..' drops the
\* segment before it, and either leaves an empty segment when it comes last
DotFree(segments, path) ==
  IF segments = <<>> THEN path
  ELSE IF Head(segments) = <<".">>
  THEN DotFree(Tail(segments), IF Len(segments) = 1 THEN Append(path, <<>>) ELSE path)
  ELSE IF Head(segments) = <<".", ".">>
  THEN DotFree(Tail(segments),
               IF Len(segments) = 1 THEN Append(Popped(path), <<>>) ELSE Popped(path))
  ELSE DotFree(Tail(segments), Append(path, Head(segments)))

RECURSIVE Joined(_)
\* the segments of a path with slashes between them
Joined(segments) ==
  IF segments = <<>> THEN <<>>
  ELSE IF Len(segments) = 1 THEN segments[1]
  ELSE segments[1] \o Slash \o Joined(Tail(segments))

\* the object key of a parsed path: what follows the bucket ('^' and the
\* path for a path that has left the bucket)
KeyOf(path) ==
  IF path # <<>> /\ Head(path) = Bucket THEN Joined(Tail(path)) ELSE <<"^">> \o Joined(path)

\* `https://${this.hostname}/${this.bucket}/${vTable}` as fetch parses it: the
\* key of the object the request is for
URLKey(vTable) == KeyOf(DotFree(Segments(Bucket \o Slash \o BeforeQuery(vTable)), <<>>))

\* the request fetch sends for execute(okCode, method, vTable, body)
Request(method, path, search, body) ==
  [method |-> method, path |-> URLKey(path), search |-> search, body |-> body]

\* the answer of the store to a request that reaches it
Answer(outcome, objs, req) ==
  CASE outcome.kind = "serve" -> Serve(objs, req)
    [] outcome.kind = "answer" ->
         [status |-> outcome.status, body |-> outcome.body, objects |-> objs]
    [] OTHER ->
         [status |-> outcome.status, body |-> TextBody(ErrorText), objects |-> objs]

\* what an execute call comes to when certify or fetch rejects
Rejected(error, sent, objs, okCode) ==
  [threw |-> TRUE, error |-> error, reply |-> NoReply, sent |-> sent, objects |-> objs,
   okCode |-> okCode]

\* what an execute call comes to when the store has answered
Replied(threw, error, req, ans, okCode) ==
  [threw |-> threw, error |-> error, reply |-> [status |-> ans.status, body |-> ans.body],
   sent |-> <<req>>, objects |-> ans.objects, okCode |-> okCode]

\* (mutant) a status check that throws new HttpException(okCode)
execute_status_LosesStatus(okCode, req, ans) ==
  IF ans.status = okCode THEN Replied(FALSE, NoError, req, ans, okCode)
  ELSE Replied(TRUE, HttpException(okCode), req, ans, okCode)

\* if (reply.status === okCode) return reply; throw new HttpException(reply.status)
execute_status(okCode, req, ans) ==
  IF ans.status = okCode THEN Replied(FALSE, NoError, req, ans, okCode)
  ELSE Replied(TRUE, HttpException(ans.status), req, ans, okCode)

\* (mutant) an execute that sends the request again when the connection fails
execute_request_Retries(okCode, req, outcome, objs) ==
  CASE outcome.kind = "signerr" -> Rejected(TypeError, <<>>, objs, okCode)
    [] outcome.kind = "neterr" -> Rejected(FetchError, <<req, req>>, objs, okCode)
    [] OTHER -> execute_status(okCode, req, Answer(outcome, objs, req))

\* await this.certify(...); await fetch(url, request); the status check
execute_request(okCode, req, outcome, objs) ==
  CASE outcome.kind = "signerr" -> Rejected(TypeError, <<>>, objs, okCode)
    [] outcome.kind = "neterr" -> Rejected(FetchError, <<req>>, objs, okCode)
    [] OTHER -> execute_status(okCode, req, Answer(outcome, objs, req))

\* execute(okCode, method, vTable, body): sign, fetch, compare the status
execute(okCode, method, path, search, body, outcome, objs) ==
  execute_request(okCode, Request(method, path, search, body), outcome, objs)

\* `${vTable}/${_id}.json`
DocPath(vTable, _id) == vTable \o Slash \o _id \o DotJson

\* What a call gives back: a value of some kind, or a thrown error
Return(kind, value) == [kind |-> kind, value |-> value, error |-> NoError]

Throw(error) == [kind |-> "throw", value |-> <<>>, error |-> error]

Null == Return("null", <<>>)

NoResult == Return("none", <<>>)

\* a call that awaits one execute and lets its error through
Awaited(ex, result) == [ex |-> ex, result |-> IF ex.threw THEN Throw(ex.error) ELSE result]

\* if (document && !document?._id) document._id = _id
Repaired(document, _id) == IF LacksId(document) THEN WithId(document, _id) ELSE document

\* (mutant) findById that writes the document it repaired back to the store
findById_reply_Repairs(vTable, _id, ex) ==
  IF ex.threw
  THEN [ex |-> ex,
        result |-> IF ex.error.type = "HttpException" /\ ex.error.code = 404 THEN Null
                   ELSE Throw(ex.error)]
  ELSE IF LacksId(JSONparse(ex.reply.body.text))
       THEN [ex |-> [ex EXCEPT
                       !.sent = Append(@, Request("PUT", DocPath(vTable, _id), <<>>, NoBody)),
                       !.objects = StorePut(@, DocPath(vTable, _id),
                                            JSONstringify(WithId(JSONparse(ex.reply.body.text),
                                                                 _id)))],
             result |-> Return("doc", WithId(JSONparse(ex.reply.body.text), _id))]
       ELSE [ex |-> ex, result |-> Return("doc", JSONparse(ex.reply.body.text))]

\* findById after its execute: the try block's document, the catch block's null
findById_reply(vTable, _id, ex) ==
  [ex |-> ex,
   result |->
     IF ex.threw
     THEN IF ex.error.type = "HttpException" /\ ex.error.code = 404 THEN Null
          ELSE Throw(ex.error)
     ELSE Return("doc", Repaired(JSONparse(ex.reply.body.text), _id))]

S3ODM_findById(vTable, _id, outcome, objs) ==
  findById_reply(vTable, _id,
                 execute(200, "GET", DocPath(vTable, _id), <<>>, NoBody, outcome, objs))

\* (mutant) exists that lets every failure but a 404 through
exists_reply_Rethrows(ex) ==
  [ex |-> ex,
   result |-> IF ex.threw /\ ~(ex.error.type = "HttpException" /\ ex.error.code = 404)
              THEN Throw(ex.error) ELSE Return("bool", ~ex.threw)]

\* .then(r => !!r).catch(() => false)
exists_reply(ex) == [ex |-> ex, result |-> Return("bool", ~ex.threw)]

S3ODM_exists(vTable, _id, outcome, objs) ==
  exists_reply(execute(200, "HEAD", DocPath(vTable, _id), <<>>, NoBody, outcome, objs))

\* (mutant) insert that stores under `${vTable}/${document._id}`
S3ODM_insert_NoSuffix(vTable, document, outcome, objs) ==
  Awaited(execute(200, "PUT", vTable \o Slash \o document._id, <<>>,
                  JsonBody(JSONstringify(document)), outcome, objs),
          Return("doc", document))

S3ODM_insert(vTable, document, outcome, objs) ==
  Awaited(execute(200, "PUT", DocPath(vTable, document._id), <<>>,
                  JsonBody(JSONstringify(document)), outcome, objs),
          Return("doc", document))

\* return this.execute(...): the reply is the value
Replying(ex) == Awaited(ex, Return("reply", ex.reply))

S3ODM_deleteById(vTable, _id, outcome, objs) ==
  Replying(execute(204, "DELETE", DocPath(vTable, _id), <<>>, NoBody, outcome, objs))

\* `<Delete>${_ids.map(_id => `<Object><Key>${vTable}/${_id}</Key></Object>`)}</Delete>`
DeleteManifest(vTable, _ids) == [i \in 1..Len(_ids) |-> vTable \o Slash \o _ids[i]]

S3ODM_deleteByIds(vTable, _ids, outcome, objs) ==
  Replying(execute(200, "POST", <<>>, <<<<DeleteParam, <<>>>>>>,
                   [kind |-> "delete", text |-> DeleteManifest(vTable, _ids)], outcome, objs))

(***************************************************************************)
(* S3ODM.listIds: one turn of its do-while loop is one page                *)
(***************************************************************************)
chunkSize == 1000

\* (mutant) the table name is used as the prefix as it was given
WithSlash_AsGiven(vTable) == vTable

\* if (!vTable.match(/\/$/)) vTable += '/'
WithSlash(vTable) == IF EndsWith(vTable, Slash) THEN vTable ELSE vTable \o Slash

\* the URLSearchParams listIds builds before the loop
listParams(vTable) ==
  ParamsSet(ParamsSet(ParamsSet(<<>>, ListTypeParam, <<"2">>),
                      MaxKeysParam, toString(chunkSize)),
            PrefixParam, vTable)

\* rewriter.on('key', ...): the selector matches element names without case
LowerTag(tag) ==
  CASE tag = "Key" -> "key" [] tag = "Prefix" -> "prefix" [] OTHER -> tag

\* the non-empty text chunks of the elements the selector matches
TextChunks(selector, xml) ==
  SelectSeq(xml, LAMBDA el : LowerTag(el.tag) = selector /\ el.text # <<>>)

\* chunk.text.substring(vTable.length).replace(/\.json$/, '')
IdOfKey(vTable, text) == StripJson(Substring(text, Len(vTable)))

\* (mutant) a text handler without the `chunk.text !== vTable` test
PushedChunks_NoFilter(vTable, chunks) == chunks

\* the chunks for which the text handler pushes an id and moves the marker
PushedChunks(vTable, chunks) == SelectSeq(chunks, LAMBDA el : el.text # vTable)

\* (mutant) a loop that never sets start-after
MarkedParams_Unmarked(params, marker) == params

\* if (marker) params.set('start-after', marker)
MarkedParams(params, marker) ==
  IF marker # <<>> THEN ParamsSet(params, StartAfterParam, marker) ELSE params

\* what rewriter.write(...) throws on a body it cannot parse
ParseError == [type |-> "Error", code |-> 0, message |-> <<<<"parse error">>>>]

\* (mutant) a page that frees its rewriter after rewriter.end() only
rewriterCalls_NoFinally(broke) ==
  IF broke THEN <<"new", "on", "write">> ELSE <<"new", "on", "write", "end", "free">>

\* what one page does with its rewriter: new HTMLRewriter(...), on(...), then
\* try { write(...); end() } finally { free() }, with write throwing or not
rewriterCalls(broke) ==
  IF broke THEN <<"new", "on", "write", "free">> ELSE <<"new", "on", "write", "end", "free">>

\* a page whose request failed: the call rejects
PageFailed(params, marker, _ids, ex) ==
  [ex |-> ex, threw |-> TRUE, error |-> ex.error, again |-> FALSE, params |-> params,
   marker |-> marker, _ids |-> _ids, matches |-> 0, rewriter |-> <<>>]

\* a page whose body the rewriter cannot parse: the call rejects
PageBroken(params, marker, _ids, ex) ==
  [ex |-> ex, threw |-> TRUE, error |-> ParseError, again |-> FALSE, params |-> params,
   marker |-> marker, _ids |-> _ids, matches |-> 0, rewriter |-> rewriterCalls(TRUE)]

\* (mutant) a text handler that moves the marker at its first push only
PageParsed_FirstMarker(vTable, params, marker, _ids, ex, matches, pushed) ==
  [ex |-> ex, threw |-> FALSE, error |-> NoError, again |-> (chunkSize = matches),
   params |-> params,
   marker |-> IF pushed = <<>> THEN marker ELSE pushed[1].text,
   _ids |-> _ids \o [i \in 1..Len(pushed) |-> IdOfKey(vTable, pushed[i].text)],
   matches |-> matches, rewriter |-> rewriterCalls(FALSE)]

\* a page after the rewriter has run: matches chunks seen, pushed of them kept
PageParsed(vTable, params, marker, _ids, ex, matches, pushed) ==
  [ex |-> ex, threw |-> FALSE, error |-> NoError, again |-> (chunkSize = matches),
   params |-> params,
   marker |-> IF pushed = <<>> THEN marker ELSE pushed[Len(pushed)].text,
   _ids |-> _ids \o [i \in 1..Len(pushed) |-> IdOfKey(vTable, pushed[i].text)],
   matches |-> matches, rewriter |-> rewriterCalls(FALSE)]

\* (mutant) a text handler that counts a match only when it pushes an id
listIds_parse_CountsPushed(vTable, params, marker, _ids, ex) ==
  IF ex.threw THEN PageFailed(params, marker, _ids, ex)
  ELSE IF ex.reply.body.kind = "badxml" THEN PageBroken(params, marker, _ids, ex)
  ELSE PageParsed(vTable, params, marker, _ids, ex,
                  Len(PushedChunks(vTable, TextChunks("key", ex.reply.body.text))),
                  PushedChunks(vTable, TextChunks("key", ex.reply.body.text)))

\* the rest of a turn of the loop after its execute: reply.text(), the rewriter
listIds_parse(vTable, params, marker, _ids, ex) ==
  IF ex.threw THEN PageFailed(params, marker, _ids, ex)
  ELSE IF ex.reply.body.kind = "badxml" THEN PageBroken(params, marker, _ids, ex)
  ELSE PageParsed(vTable, params, marker, _ids, ex,
                  Len(TextChunks("key", ex.reply.body.text)),
                  PushedChunks(vTable, TextChunks("key", ex.reply.body.text)))

\* One page: set start-after, request, parse.  vTable ends with '/' here.
listIds_page(vTable, params, marker, _ids, outcome, objs) ==
  listIds_parse(vTable, MarkedParams(params, marker), marker, _ids,
                execute(200, "GET", <<>>, MarkedParams(params, marker), NoBody, outcome, objs))

(***************************************************************************)
(* S3ODM.listTables: the same loop over the Prefix elements                *)
(***************************************************************************)
\* the URLSearchParams listTables builds before the loop
tablesParams ==
  ParamsSet(ParamsSet(ParamsSet(ParamsSet(<<>>, ListTypeParam, <<"2">>),
                                MaxKeysParam, toString(chunkSize)),
                      PrefixParam, <<>>),
            DelimiterParam, Slash)

\* chunk.text.replace(/\/$/, '')
StripSlash(text) == IF EndsWith(text, Slash) THEN SubSeq(text, 1, Len(text) - 1) ELSE text

\* a page of listTables after the rewriter has run over its Prefix chunks
TablesParsed(params, marker, _tables, ex, chunks) ==
  [ex |-> ex, threw |-> FALSE, error |-> NoError, again |-> (chunkSize = Len(chunks)),
   params |-> params,
   marker |-> IF chunks = <<>> THEN marker ELSE chunks[Len(chunks)].text,
   _ids |-> _tables \o [i \in 1..Len(chunks) |-> StripSlash(chunks[i].text)],
   matches |-> Len(chunks), rewriter |-> rewriterCalls(FALSE)]

\* the rest of a turn of the loop after its execute: reply.text(), the rewriter
listTables_parse(params, marker, _tables, ex) ==
  IF ex.threw THEN PageFailed(params, marker, _tables, ex)
  ELSE IF ex.reply.body.kind = "badxml" THEN PageBroken(params, marker, _tables, ex)
  ELSE TablesParsed(params, marker, _tables, ex, TextChunks("prefix", ex.reply.body.text))

\* One page: set start-after, request, parse
listTables_page(params, marker, _tables, outcome, objs) ==
  listTables_parse(MarkedParams(params, marker), marker, _tables,
                   execute(200, "GET", <<>>, MarkedParams(params, marker), NoBody, outcome,
                           objs))

(***************************************************************************)
(* createCertifier: the signer                                             *)
(***************************************************************************)
\* the credentials and region a client is constructed with
AccessKey == <<"A", "K">>

SecretKey == <<"s", "e", "c">>

Region == <<"a", "u", "t", "o">>

SERVICE == <<"s", "3">>

\* SHA-256, HMAC-SHA256 and the hex form of a buffer: one-to-one constructors
sha256encode(content) == <<"sha256", content>>

createHMAC(key, string) == <<"hmac", key, string>>

buff2hex(buffer) == <<"hex", buffer>>

\* array.join(separator) of strings that do not hold the separator
Join(parts) == parts

\* characters encodeURIComponent escapes, with their two hex digits
Escaped ==
  {<<" ", "2", "0">>, <<"%", "2", "5">>, <<"&", "2", "6">>, <<"+", "2", "B">>,
   <<"/", "2", "F">>, <<":", "3", "A">>, <<"=", "3", "D">>, <<"?", "3", "F">>}

\* characters encodeURIComponent leaves and encodeRFC3986 escapes: ! ' ( ) *
EscapedRFC3986 ==
  {<<"!", "2", "1">>, <<"'", "2", "7">>, <<"(", "2", "8">>, <<")", "2", "9">>,
   <<"*", "2", "A">>}

EscapeWith(table, c) ==
  IF \E e \in table : e[1] = c
  THEN LET e == CHOOSE e \in table : e[1] = c IN <<"%", e[2], e[3]>>
  ELSE <<c>>

RECURSIVE EscapeAll(_, _)
EscapeAll(table, str) ==
  IF str = <<>> THEN <<>> ELSE EscapeWith(table, Head(str)) \o EscapeAll(table, Tail(str))

encodeURIComponent(str) == EscapeAll(Escaped, str)

encodeRFC3986(urlEncodedStr) == EscapeAll(EscapedRFC3986, urlEncodedStr)

\* the %XX at the head of str names a character
Decodable(str) ==
  Len(str) >= 3 /\ \E e \in Escaped \cup EscapedRFC3986 : e[2] = str[2] /\ e[3] = str[3]

RECURSIVE Malformed(_)
\* decodeURIComponent(str) throws URIError
Malformed(str) ==
  IF str = <<>> THEN FALSE
  ELSE IF Head(str) = "%" THEN ~Decodable(str) \/ Malformed(SubSeq(str, 4, Len(str)))
  ELSE Malformed(Tail(str))

RECURSIVE decodeURIComponent(_)
decodeURIComponent(str) ==
  IF str = <<>> THEN <<>>
  ELSE IF Head(str) = "%"
       THEN <<(CHOOSE e \in Escaped \cup EscapedRFC3986 : e[2] = str[2] /\ e[3] = str[3])[1]>>
              \o decodeURIComponent(SubSeq(str, 4, Len(str)))
       ELSE <<Head(str)>> \o decodeURIComponent(Tail(str))

\* str.replace(/\+/g, ' ')
PlusToSpace(str) == [i \in 1..Len(str) |-> IF str[i] = "+" THEN " " ELSE str[i]]

RECURSIVE RestoreSlashes(_)
\* str.replace(/%2F/g, '/')
RestoreSlashes(str) ==
  IF str = <<>> THEN <<>>
  ELSE IF Len(str) >= 3 /\ SubSeq(str, 1, 3) = <<"%", "2", "F">>
       THEN <<"/">> \o RestoreSlashes(SubSeq(str, 4, Len(str)))
       ELSE <<Head(str)>> \o RestoreSlashes(Tail(str))

\* the canonical path of a URL's pathname
encodedPath(pathname) ==
  LET decoded == IF Malformed(PlusToSpace(pathname)) THEN pathname
                 ELSE decodeURIComponent(PlusToSpace(pathname))
  IN encodeRFC3986(RestoreSlashes(encodeURIComponent(decoded)))

\* k1 < k2 ? -1 : k1 > k2 ? 1 : v1 < v2 ? -1 : v1 > v2 ? 1 : 0 is negative
PairLess(p, q) == StrLess(p[1], q[1]) \/ (p[1] = q[1] /\ StrLess(p[2], q[2]))

\* (mutant) a signer that leaves the pairs in the order of the URL
SortPairs_Unsorted(pairs) == pairs

RECURSIVE SortPairs(_)
\* pairs.sort(...) with that comparison (a stable sort)
SortPairs(pairs) ==
  IF pairs = <<>> THEN <<>>
  ELSE LET last == pairs[Len(pairs)]
           rest == SortPairs(SubSeq(pairs, 1, Len(pairs) - 1))
       IN SelectSeq(rest, LAMBDA p : ~PairLess(last, p)) \o <<last>>
            \o SelectSeq(rest, LAMBDA p : PairLess(last, p))

\* the canonical query string of a URL's searchParams
encodedSearch(searchParams) ==
  LET kept == {i \in 1..Len(searchParams) :
                 /\ searchParams[i][1] # <<>>
                 /\ \A j \in 1..(i - 1) : searchParams[j][1] # searchParams[i][1]}
      first == SelectSeq([i \in 1..Len(searchParams) |-> <<i, searchParams[i]>>],
                         LAMBDA e : e[1] \in kept)
      encoded == [i \in 1..Len(first) |->
                    <<encodeRFC3986(encodeURIComponent(first[i][2][1])),
                      encodeRFC3986(encodeURIComponent(first[i][2][2]))>>]
      sorted == SortPairs(encoded)
  IN Join([i \in 1..Len(sorted) |-> Join(<<sorted[i][1], "=", sorted[i][2]>>)])

\* Header names are matched without case: the names of the model, lower-cased
LowerName(name) ==
  CASE name \in {"Host", "HOST", "host"} -> "host"
    [] name \in {"X-Amz-Content-Sha256", "x-amz-content-sha256"} -> "x-amz-content-sha256"
    [] name \in {"X-Amz-Date", "x-amz-date"} -> "x-amz-date"
    [] name \in {"Content-Type", "content-type"} -> "content-type"
    [] name \in {"Authorization", "authorization"} -> "authorization"
    [] name \in {"X-Custom", "x-custom"} -> "x-custom"
    [] name \in {"Range", "range"} -> "range"
    [] OTHER -> name

\* the lower-cased names in the order of Array.prototype.sort()
NameOrder ==
  <<"authorization", "content-type", "host", "range", "x-amz-content-sha256",
    "x-amz-date", "x-custom">>

\* new Headers(init) for a list of <<name, value>> pairs: a map from
\* lower-cased names to values, the values of one name joined with ', '
RECURSIVE Headers(_)
Headers(init) ==
  IF init = <<>> THEN <<>>
  ELSE LET h == Headers(SubSeq(init, 1, Len(init) - 1))
           name == LowerName(init[Len(init)][1])
           value == init[Len(init)][2]
       IN IF \E i \in 1..Len(h) : h[i][1] = name
          THEN [i \in 1..Len(h) |->
                  IF h[i][1] = name THEN <<name, h[i][2] \o <<",", " ">> \o value>> ELSE h[i]]
          ELSE Append(h, <<name, value>>)

HeadersHas(h, name) == \E i \in 1..Len(h) : h[i][1] = LowerName(name)

HeadersGet(h, name) == h[CHOOSE i \in 1..Len(h) : h[i][1] = LowerName(name)][2]

HeadersDelete(h, name) == SelectSeq(h, LAMBDA e : e[1] # LowerName(name))

HeadersSet(h, name, value) == Append(HeadersDelete(h, name), <<LowerName(name), value>>)

\* headers.keys(): the names, sorted
HeadersKeys(h) == SelectSeq(NameOrder, LAMBDA n : \E i \in 1..Len(h) : h[i][1] = n)

UNSIGNABLE_HEADERS ==
  {"authorization", "content-type", "content-length", "user-agent", "presigned-expires",
   "expect", "x-amzn-trace-id", "range", "connection"}

RECURSIVE SortFrom(_, _)
SortFrom(names, r) ==
  IF r > Len(NameOrder) THEN <<>>
  ELSE SelectSeq(names, LAMBDA n : n = NameOrder[r]) \o SortFrom(names, r + 1)

\* names.sort()
SortNames(names) == SortFrom(names, 1)

RECURSIVE CollapseSpaces(_)
\* value.replace(/\s+/g, ' ')
CollapseSpaces(value) ==
  IF Len(value) < 2 THEN value
  ELSE IF value[1] = " " /\ value[2] = " " THEN CollapseSpaces(Tail(value))
  ELSE <<value[1]>> \o CollapseSpaces(Tail(value))

UNSIGNED_PAYLOAD == <<"UNSIGNED-PAYLOAD">>

\* new Date().toISOString().replace(/[:-]|\.\d{3}/g, '') on day `day` of the
\* month, `second` seconds after midnight UTC
ISODate(day, second) ==
  <<"2", "0", "2", "6", "0", "1", "0", Digit[day + 1], "T", "0", "0", "0", "0", "0",
    Digit[second + 1], "Z">>

\* the headers that get signed, before sorting: ['host', ...headers.keys()]
\* without the unsignable ones
signableHeaders(headers) ==
  SelectSeq(<<"host">> \o HeadersKeys(headers), LAMBDA header : header \notin UNSIGNABLE_HEADERS)

\* (mutant) a signer without headers.delete('Host')
preparedHeaders_KeepsHost(baseHeaders, datetime) ==
  LET h0 == Headers(baseHeaders)
      h1 == IF ~HeadersHas(h0, "X-Amz-Content-Sha256")
            THEN HeadersSet(h0, "X-Amz-Content-Sha256", UNSIGNED_PAYLOAD) ELSE h0
  IN HeadersSet(h1, "X-Amz-Date", datetime)

\* headers.delete('Host') and the two headers the signer sets
preparedHeaders(baseHeaders, datetime) ==
  LET h0 == HeadersDelete(Headers(baseHeaders), "Host")
      h1 == IF ~HeadersHas(h0, "X-Amz-Content-Sha256")
            THEN HeadersSet(h0, "X-Amz-Content-Sha256", UNSIGNED_PAYLOAD) ELSE h0
  IN HeadersSet(h1, "X-Amz-Date", datetime)

CacheHas(c, cacheKey) == \E e \in c : e[1] = cacheKey

CacheGet(c, cacheKey) == (CHOOSE e \in c : e[1] = cacheKey)[2]

CacheSet(c, cacheKey, value) == {e \in c : e[1] # cacheKey} \cup {<<cacheKey, value>>}

InvalidBody ==
  [type |-> "Error", code |-> 0,
   message |-> <<<<"body must be a string, ArrayBuffer or ArrayBufferView">>>>]

\* datetime.slice(0, 8)
datestr(datetime) == SubSeq(datetime, 1, 8)

\* [_datestr, _region, SERVICE, 'aws4_request'].join('/')
credentialString(_datestr) == Join(<<_datestr, Region, SERVICE, <<"aws4_request">>>>)

\* (mutant) a cache key without the date stamp
cacheKey_NoDate(_datestr) == Join(<<SecretKey, Region, SERVICE>>)

\* [secretKey, _datestr, _region, SERVICE].join()
cacheKey(_datestr) == Join(<<SecretKey, _datestr, Region, SERVICE>>)

\* kDate, region, kService, kCredentials: the four createHMAC calls
deriveKey(_datestr) ==
  createHMAC(createHMAC(createHMAC(createHMAC(<<"AWS4">> \o SecretKey, _datestr), Region),
                        SERVICE),
             <<"aws4_request">>)

\* let kCredentials = cache.get(cacheKey); if (!kCredentials) { ... }
signingKey(c, _datestr) ==
  IF CacheHas(c, cacheKey(_datestr)) THEN CacheGet(c, cacheKey(_datestr))
  ELSE deriveKey(_datestr)

\* cache.set(cacheKey, kCredentials) when the lookup missed
cacheAfter(c, _datestr) ==
  IF CacheHas(c, cacheKey(_datestr)) THEN c
  ELSE CacheSet(c, cacheKey(_datestr), deriveKey(_datestr))

\* The signer from its clock reading to its return, with the signing key
\* kCredentials that the cache or the derivation gave it
signWith(input, datetime, kCredentials) ==
  LET urlObject == input.url
      headers == preparedHeaders(input.baseHeaders, datetime)
      sorted == SortNames(signableHeaders(headers))
      signedHeaders == Join(sorted)
      canonicalHeaders ==
        Join([i \in 1..Len(sorted) |->
                <<sorted[i], ":",
                  IF sorted[i] = "host" THEN urlObject.host
                  ELSE CollapseSpaces(HeadersGet(headers, sorted[i]))>>])
      _datestr == datestr(datetime)
      hashNull == ~HeadersHas(headers, "X-Amz-Content-Sha256")
      hashHeader == IF hashNull
                    THEN buff2hex(sha256encode(IF input.body.kind = "none" THEN <<>>
                                               ELSE input.body.text))
                    ELSE HeadersGet(headers, "X-Amz-Content-Sha256")
      canonicalRequest ==
        Join(<<input.method, encodedPath(urlObject.pathname),
               encodedSearch(urlObject.searchParams), canonicalHeaders, signedHeaders,
               hashHeader>>)
      signature ==
        buff2hex(createHMAC(kCredentials,
          Join(<<"AWS4-HMAC-SHA256", datetime, credentialString(_datestr),
                 buff2hex(sha256encode(canonicalRequest))>>)))
      authorization ==
        [Credential |-> <<AccessKey, credentialString(_datestr)>>,
         SignedHeaders |-> signedHeaders, Signature |-> signature]
  IN IF hashNull /\ input.body.kind \notin {"none", "string", "buffer"}
     THEN [threw |-> TRUE, error |-> InvalidBody, method |-> input.method, headers |-> <<>>,
           body |-> input.body, datetime |-> datetime, key |-> kCredentials]
     ELSE [threw |-> FALSE, error |-> NoError, method |-> input.method,
           headers |-> HeadersSet(headers, "Authorization", authorization),
           body |-> input.body, datetime |-> datetime, key |-> kCredentials]

\* The signer createCertifier returns, called at datetime with the cache c and
\* run to its end with no other call in between: what signWith gives, the
\* cache afterwards, and whether it made the createHMAC calls of the derivation
certify(input, datetime, c) ==
  [request |-> signWith(input, datetime, signingKey(c, datestr(datetime))),
   cache |-> cacheAfter(c, datestr(datetime)),
   derived |-> ~CacheHas(c, cacheKey(datestr(datetime)))]

\* no signer call in flight besides the one of signIn, and the clock unread
NoCalls == <<>>

Midnight == <<1, 1>>

(***************************************************************************)
(* The client: one call at a time, one step per request                    *)
(***************************************************************************)
NoLast == [okCode |-> 0, method |-> "", kind |-> "", status |-> 0, threw |-> FALSE,
           error |-> NoError, text |-> <<>>]

\* what is kept of an execute call
LastOf(ex, method, outcome) ==
  [okCode |-> ex.okCode, method |-> method, kind |-> outcome.kind, status |-> ex.reply.status,
   threw |-> ex.threw, error |-> ex.error,
   text |-> IF ex.reply.body.kind = "text" THEN ex.reply.body.text ELSE <<>>]

NoPrev == [op |-> "none", vTable |-> <<>>, id |-> <<>>, doc |-> <<>>, ids |-> <<>>]

\* what a task remembers of its previous call: a write that succeeded with
\* every request served by the store (history, for stating round trips)
PrevOf(t) ==
  IF t.pc = "done" /\ t.served /\ t.result.kind # "throw"
       /\ t.op \in {"insert", "deleteById", "Repository.deleteAll"}
  THEN [op |-> t.op, vTable |-> t.vTable, id |-> t.id, doc |-> t.doc,
        ids |-> IF t.result.kind = "ids" THEN t.result.value ELSE <<>>]
  ELSE NoPrev

NoRepository == [driver |-> <<>>, tableName |-> <<>>]

IdleTask ==
  [op |-> "idle", pc |-> "idle", vTable |-> <<>>, id |-> <<>>, doc |-> <<>>, ids |-> <<>>,
   marker |-> <<>>, params |-> <<>>, matches |-> 0, served |-> TRUE,
   result |-> NoResult, reqs |-> <<>>, last |-> NoLast, prev |-> NoPrev,
   rewriters |-> <<>>, docs |-> <<>>, repository |-> NoRepository, xml |-> <<>>]

Tables == {<<"t">>}

Ids == {<<"a">>, <<"b">>}

UUIDs == {<<"u">>}

Names == {<<"J", "a", "n", "e">>, <<"B", "o", "b">>}

Docs == {[_id |-> i, name |-> n] : i \in Ids, n \in Names}

NewDocs == {[name |-> n] : n \in Names}

IdLists == {<<<<"a">>>>, <<<<"a">>, <<"b">>>>}

Free == task.pc \in {"idle", "done"}

Begin(op, pc, vTable, id, doc, ids) ==
  task' = [IdleTask EXCEPT !.op = op, !.pc = pc, !.vTable = vTable, !.id = id,
                            !.doc = doc, !.ids = ids, !.prev = PrevOf(task)]

\* what a request is about: the keys of its delete manifest, the prefix it
\* lists, the key of its object
Touched(req) ==
  CASE req.method = "POST" -> Range(req.body.text)
    [] req.method = "GET" /\ ParamsHas(req.search, ListTypeParam) ->
         {ParamsGet(req.search, PrefixParam)}
    [] OTHER -> {req.path}

\* the requests an exchange put on the wire
SentBy(ex) ==
  [i \in 1..Len(ex.sent) |->
     [method |-> ex.sent[i].method, path |-> ex.sent[i].path, keys |-> Touched(ex.sent[i])]]

\* the task after the exchange ex, answered with outcome
Exchanged(ex, method, outcome) ==
  [task EXCEPT !.reqs = @ \o SentBy(ex), !.last = LastOf(ex, method, outcome),
               !.served = @ /\ outcome.kind = "serve"]

\* the call ends with the result of r, the store is left as r left it
Finish(r, method, outcome) ==
  /\ task' = [Exchanged(r.ex, method, outcome) EXCEPT !.pc = "done", !.result = r.result]
  /\ objects' = r.ex.objects

Call ==
  /\ Free
  /\ \E vTable \in Tables :
       \/ \E _id \in Ids : \E op \in {"findById", "exists", "deleteById", "Repository.findById"} :
            Begin(op, "run", vTable, _id, <<>>, <<>>)
       \/ \E document \in Docs : Begin("insert", "run", vTable, <<>>, document, <<>>)
       \/ \E _ids \in IdLists : Begin("deleteByIds", "run", vTable, <<>>, <<>>, _ids)
       \/ \E document \in Docs \cup NewDocs :
            Begin("Repository.insert", "exists", vTable, <<>>, document, <<>>)
       \/ \E document \in Docs :
            Begin("Repository.update", "exists", vTable, <<>>, document, <<>>)
  /\ UNCHANGED <<objects, signIn, signOut, cache, calls, clock>>

findById ==
  /\ task.op = "findById" /\ task.pc = "run"
  /\ \E outcome \in Outcomes(200) :
       Finish(S3ODM_findById(task.vTable, task.id, outcome, objects), "GET", outcome)
  /\ UNCHANGED <<signIn, signOut, cache, calls, clock>>

exists ==
  /\ task.op = "exists" /\ task.pc = "run"
  /\ \E outcome \in Outcomes(200) :
       Finish(S3ODM_exists(task.vTable, task.id, outcome, objects), "HEAD", outcome)
  /\ UNCHANGED <<signIn, signOut, cache, calls, clock>>

insert ==
  /\ task.op = "insert" /\ task.pc = "run"
  /\ \E outcome \in Outcomes(200) :
       Finish(S3ODM_insert(task.vTable, task.doc, outcome, objects), "PUT", outcome)
  /\ UNCHANGED <<signIn, signOut, cache, calls, clock>>

deleteById ==
  /\ task.op = "deleteById" /\ task.pc = "run"
  /\ \E outcome \in Outcomes(204) :
       Finish(S3ODM_deleteById(task.vTable, task.id, outcome, objects), "DELETE", outcome)
  /\ UNCHANGED <<signIn, signOut, cache, calls, clock>>

deleteByIds ==
  /\ task.op = "deleteByIds" /\ task.pc = "run"
  /\ \E outcome \in Outcomes(200) :
       Finish(S3ODM_deleteByIds(task.vTable, task.ids, outcome, objects), "POST", outcome)
  /\ UNCHANGED <<signIn, signOut, cache, calls, clock>>

\* catch (error) { return null }
CatchNull(r) == [ex |-> r.ex, result |-> IF r.result.kind = "throw" THEN Null ELSE r.result]

\* Repository.findById: try { driver.findById } catch { return null }
Repository_findById(tableName, _id, outcome, objs) ==
  CatchNull(S3ODM_findById(tableName, _id, outcome, objs))

Repository_findById_step ==
  /\ task.op = "Repository.findById" /\ task.pc = "run"
  /\ \E outcome \in Outcomes(200) :
       Finish(Repository_findById(task.vTable, task.id, outcome, objects), "GET", outcome)
  /\ UNCHANGED <<signIn, signOut, cache, calls, clock>>

AlreadyExists(_id) ==
  [type |-> "Error", code |-> 0, message |-> <<<<"Record with _id [">>, _id, <<"] already exists">>>>]

\* if (!document?._id) document._id = toUUID(...)
Identified(document, uuid) == IF LacksId(document) THEN WithId(document, uuid) ELSE document

\* if (await this.driver.exists(...)) throw new Error(...): r is what exists gave
Repository_insert_check(document, r, outcome) ==
  /\ objects' = r.ex.objects
  /\ IF r.result.value
     THEN task' = [Exchanged(r.ex, "HEAD", outcome) EXCEPT
                     !.pc = "done", !.doc = document,
                     !.result = Throw(AlreadyExists(document._id))]
     ELSE task' = [Exchanged(r.ex, "HEAD", outcome) EXCEPT !.pc = "insert", !.doc = document]

\* Repository.insert up to its first request: give the document an _id if it
\* has none, then ask whether it exists
Repository_insert_exists ==
  /\ task.op = "Repository.insert" /\ task.pc = "exists"
  /\ \E uuid \in UUIDs : \E outcome \in Outcomes(200) :
       Repository_insert_check(
         Identified(task.doc, uuid),
         S3ODM_exists(task.vTable, Identified(task.doc, uuid)._id, outcome, objects),
         outcome)
  /\ UNCHANGED <<signIn, signOut, cache, calls, clock>>

DoesNotExist(_id) ==
  [type |-> "Error", code |-> 0, message |-> <<<<"Record with _id [">>, _id, <<"] does not exist">>>>]

\* if (!(await this.driver.exists(...))) throw new Error(...): r is what exists gave
Repository_update_check(document, r, outcome) ==
  /\ objects' = r.ex.objects
  /\ IF r.result.value
     THEN task' = [Exchanged(r.ex, "HEAD", outcome) EXCEPT !.pc = "insert"]
     ELSE task' = [Exchanged(r.ex, "HEAD", outcome) EXCEPT
                     !.pc = "done", !.result = Throw(DoesNotExist(document._id))]

\* Repository.update up to its first request: ask whether the record exists
Repository_update_exists ==
  /\ task.op = "Repository.update" /\ task.pc = "exists"
  /\ \E outcome \in Outcomes(200) :
       Repository_update_check(task.doc,
                               S3ODM_exists(task.vTable, task.doc._id, outcome, objects),
                               outcome)
  /\ UNCHANGED <<signIn, signOut, cache, calls, clock>>

\* Repository.insert after exists() gave false, Repository.update after it
\* gave true: driver.insert
Repository_insert_put ==
  /\ task.op \in {"Repository.insert", "Repository.update"} /\ task.pc = "insert"
  /\ \E outcome \in Outcomes(200) :
       Finish(S3ODM_insert(task.vTable, task.doc, outcome, objects), "PUT", outcome)
  /\ UNCHANGED <<signIn, signOut, cache, calls, clock>>

\* listIds(vTable), Repository.deleteAll() and Repository.findAll() up to the
\* first page request
CallList ==
  /\ Free
  /\ \E vTable \in Tables \cup {WithSlash(t) : t \in Tables} :
       \E op \in {"listIds", "Repository.deleteAll", "Repository.findAll"} :
         task' = [IdleTask EXCEPT !.op = op, !.pc = "page", !.vTable = vTable,
                                   !.params = listParams(WithSlash(vTable)),
                                   !.prev = PrevOf(task)]
  /\ UNCHANGED <<objects, signIn, signOut, cache, calls, clock>>

\* the task after the exchange of a page r, with what the page left in the
\* loop's variables
Paged(r, outcome) ==
  [Exchanged(r.ex, "GET", outcome) EXCEPT
     !.params = r.params, !.marker = r.marker, !.ids = r._ids, !.matches = r.matches,
     !.rewriters = Append(@, r.rewriter),
     !.xml = IF r.ex.threw THEN @ ELSE r.ex.reply.body.text]

\* (mutant) a scan that returns what it has when a page fails
Continued_ReturnsPartial(t1, r) ==
  CASE r.threw -> [t1 EXCEPT !.pc = "done", !.result = Return("ids", r._ids)]
    [] ~r.threw /\ r.again -> t1
    [] OTHER -> [t1 EXCEPT !.pc = "done", !.result = Return("ids", r._ids)]

\* where the call goes after the page: it rejects, loops, deletes or returns
Continued(t1, r) ==
  CASE r.threw -> [t1 EXCEPT !.pc = "done", !.result = Throw(r.error)]
    [] ~r.threw /\ r.again -> t1
    [] ~r.threw /\ ~r.again /\ t1.op = "Repository.deleteAll" /\ r._ids # <<>> ->
         [t1 EXCEPT !.pc = "deleteByIds"]
    [] ~r.threw /\ ~r.again /\ t1.op = "Repository.findAll" ->
         IF r._ids = <<>> THEN [t1 EXCEPT !.pc = "done", !.result = Return("docs", <<>>)]
         ELSE [t1 EXCEPT !.pc = "findAll"]
    [] OTHER -> [t1 EXCEPT !.pc = "done", !.result = Return("ids", r._ids)]

\* the step of a page r of the listing, answered with outcome
AfterPage(r, outcome) ==
  /\ task' = Continued(Paged(r, outcome), r)
  /\ objects' = r.ex.objects

\* one page of listIds against the store
listIdsPage ==
  /\ task.pc = "page" /\ task.op # "listTables"
  /\ \E outcome \in Outcomes(200) :
       AfterPage(listIds_page(WithSlash(task.vTable), task.params, task.marker, task.ids,
                              outcome, objects),
                 outcome)
  /\ UNCHANGED <<signIn, signOut, cache, calls, clock>>

\* await this.driver.deleteByIds(...); return _ids
ReturnIds(r, _ids) == Awaited(r.ex, Return("ids", _ids))

\* Repository.deleteAll after listIds gave a non-empty list: driver.deleteByIds
Repository_deleteAll_delete ==
  /\ task.op = "Repository.deleteAll" /\ task.pc = "deleteByIds"
  /\ \E outcome \in Outcomes(200) :
       Finish(ReturnIds(S3ODM_deleteByIds(task.vTable, task.ids, outcome, objects), task.ids),
              "POST", outcome)
  /\ UNCHANGED <<signIn, signOut, cache, calls, clock>>

\* (await Promise.all(documents)).filter(Boolean): the documents of the
\* lookups that gave one
Found(results) ==
  LET found == SelectSeq(results, LAMBDA x : x.kind = "doc")
  IN [k \in 1..Len(found) |-> found[k].value]

\* the task after the lookup r of the next id: the last one settles the call
Fetched(t1, r) ==
  IF Len(t1.docs) + 1 < Len(t1.ids) THEN [t1 EXCEPT !.docs = Append(@, r.result)]
  ELSE [t1 EXCEPT !.docs = Append(@, r.result), !.pc = "done",
                  !.result = Return("docs", Found(Append(t1.docs, r.result)))]

\* the step of the lookup r of Repository.findAll, answered with outcome
AfterFetch(r, outcome) ==
  /\ task' = Fetched(Exchanged(r.ex, "GET", outcome), r)
  /\ objects' = r.ex.objects

\* Repository.findAll after listIds gave a non-empty list: this.findById(id)
\* of the next id
Repository_findAll_fetch ==
  /\ task.op = "Repository.findAll" /\ task.pc = "findAll"
  /\ \E outcome \in Outcomes(200) :
       AfterFetch(Repository_findById(task.vTable, task.ids[Len(task.docs) + 1], outcome,
                                      objects),
                  outcome)
  /\ UNCHANGED <<signIn, signOut, cache, calls, clock>>

(***************************************************************************)
(* The store specification: a bucket of a few documents, any call          *)
(***************************************************************************)
SeedName == <<"J", "o", "e">>

\* the bodies a seeded object may have: a document with its own _id, one
\* without _id, one whose _id disagrees with its key
SeedTexts(_id) ==
  {JSONstringify([_id |-> _id, name |-> SeedName]),
   JSONstringify([name |-> SeedName]),
   JSONstringify([_id |-> <<"x">>, name |-> SeedName])}

SeedObjects(key, texts) == {<<>>} \cup {<<[key |-> key, text |-> x]>> : x \in texts}

\* the prefix marker object of table t, then its documents, in key order
SeedStores(vTable) ==
  {m \o a \o b :
     m \in SeedObjects(WithSlash(vTable), {<<>>}),
     a \in SeedObjects(DocPath(vTable, <<"a">>), SeedTexts(<<"a">>)),
     b \in SeedObjects(DocPath(vTable, <<"b">>), SeedTexts(<<"b">>))}

NoSign == <<>>

InitStore ==
  /\ objects \in SeedStores(<<"t">>)
  /\ task = IdleTask
  /\ signIn = NoSign
  /\ signOut = NoSign
  /\ cache = {}
  /\ calls = NoCalls
  /\ clock = Midnight

NextStore ==
  \/ Call
  \/ CallList
  \/ findById
  \/ exists
  \/ insert
  \/ deleteById
  \/ deleteByIds
  \/ listIdsPage
  \/ Repository_findById_step
  \/ Repository_insert_exists
  \/ Repository_insert_put
  \/ Repository_deleteAll_delete
  \/ Repository_update_exists
  \/ Repository_findAll_fetch

SpecStore == InitStore /\ [][NextStore]_vars

(***************************************************************************)
(* The listing specification: listIds against buckets of up to a few pages *)
(***************************************************************************)
\* how many documents a bucket holds beyond a whole number of pages
Few == 3

\* the requests of one scan after which the store no longer answers with a
\* full page that its objects do not determine
MaxPages == 2

\* the longest short page that the objects do not determine
ShortLen == 2

\* the key of the n-th document of a big table: <prefix>k<4 digits>.json
FillKey(prefix, n) == prefix \o <<"k">> \o Tail(toString(10000 + n)) \o DotJson

\* a bucket with n documents in table t, with or without the table's prefix
\* marker object, between an object of table s and objects of the tables tt
\* and u
BigStore(n, marked) ==
  <<[key |-> <<"s", "/", "a", ".", "j", "s", "o", "n">>, text |-> <<>>]>>
    \o (IF marked THEN <<[key |-> <<"t", "/">>, text |-> <<>>]>> ELSE <<>>)
    \o [i \in 1..n |-> [key |-> FillKey(<<"t", "/">>, i), text |-> <<>>]]
    \o <<[key |-> <<"t", "t", "/", "a", ".", "j", "s", "o", "n">>, text |-> <<>>],
         [key |-> <<"u", "/", "a", ".", "j", "s", "o", "n">>, text |-> <<>>]>>

Sizes ==
  {0, Few, chunkSize - 1, chunkSize, chunkSize + Few, 2 * chunkSize}

\* the n-th top-level prefix of a wide bucket: k<4 digits>/
TableKey(n) == <<"k">> \o Tail(toString(10000 + n)) \o Slash

\* a bucket of n tables of one document each, with or without an object at
\* the root before them
WideStore(n, rooted) ==
  (IF rooted THEN <<[key |-> <<"a">>, text |-> <<>>]>> ELSE <<>>)
    \o [i \in 1..n |-> [key |-> TableKey(i) \o <<"a">> \o DotJson, text |-> <<>>]]

InitList ==
  /\ objects \in {BigStore(n, marked) : n \in Sizes, marked \in BOOLEAN}
                  \cup {WideStore(n, rooted) : n \in Sizes, rooted \in BOOLEAN}
  /\ task = IdleTask
  /\ signIn = NoSign
  /\ signOut = NoSign
  /\ cache = {}
  /\ calls = NoCalls
  /\ clock = Midnight

CallListIds ==
  /\ Free /\ task.op = "idle"
  /\ \E vTable \in Tables \cup {WithSlash(t) : t \in Tables} :
       task' = [IdleTask EXCEPT !.op = "listIds", !.pc = "page", !.vTable = vTable,
                                 !.params = listParams(WithSlash(vTable))]
  /\ UNCHANGED <<objects, signIn, signOut, cache, calls, clock>>

KeyElements(keys) == [i \in 1..Len(keys) |-> [tag |-> "Key", text |-> keys[i]]]

RECURSIVE SeqsUpTo(_, _)
\* the sequences over S of length at most n
SeqsUpTo(S, n) ==
  IF n = 0 THEN {<<>>}
  ELSE SeqsUpTo(S, n - 1) \cup {Append(q, x) : q \in SeqsUpTo(S, n - 1), x \in S}

\* pages of fewer than max-keys keys, the prefix marker among them anywhere
ShortPages(prefix) ==
  SeqsUpTo({prefix, DocPath(prefix, <<"a">>), prefix \o <<"b">>}, ShortLen)

\* pages of max-keys keys: the prefix marker nowhere, last, everywhere
FullPages(prefix) ==
  {[i \in 1..chunkSize |-> IF i \in at THEN prefix ELSE FillKey(prefix, i)] :
     at \in {{}, {chunkSize}, 1..chunkSize}}

\* a 200 answer that lists keys after the Prefix element
AnyPage(prefix, keys) ==
  [kind |-> "answer", status |-> 200,
   body |-> XmlBody(<<[tag |-> "Prefix", text |-> prefix]>> \o KeyElements(keys))]

\* a 200 answer whose body the rewriter cannot parse
BrokenPage == [kind |-> "answer", status |-> 200, body |-> [kind |-> "badxml", text |-> <<>>]]

\* the 200 answers to a page of listIds that the objects do not determine
AnyPages(prefix, sent) ==
  {AnyPage(prefix, keys) :
     keys \in ShortPages(prefix) \cup (IF sent < MaxPages THEN FullPages(prefix) ELSE {})}
    \cup {BrokenPage}

\* one page of listIds answered 200 with keys that the model's objects do
\* not determine (a bucket that other clients change, or any other store)
listIdsPageAny ==
  /\ task.pc = "page" /\ task.op # "listTables"
  /\ \E answer \in AnyPages(WithSlash(task.vTable), Len(task.reqs)) :
       AfterPage(listIds_page(WithSlash(task.vTable), task.params, task.marker, task.ids,
                              answer, objects),
                 answer)
  /\ UNCHANGED <<signIn, signOut, cache, calls, clock>>

\* listTables() up to the first page request
CallListTables ==
  /\ Free /\ task.op = "idle"
  /\ task' = [IdleTask EXCEPT !.op = "listTables", !.pc = "page", !.params = tablesParams]
  /\ UNCHANGED <<objects, signIn, signOut, cache, calls, clock>>

\* one page of listTables against the store
listTablesPage ==
  /\ task.pc = "page" /\ task.op = "listTables"
  /\ \E outcome \in Outcomes(200) :
       AfterPage(listTables_page(task.params, task.marker, task.ids, outcome, objects),
                 outcome)
  /\ UNCHANGED <<signIn, signOut, cache, calls, clock>>

PrefixElements(prefixes) ==
  [i \in 1..Len(prefixes) |-> [tag |-> "Prefix", text |-> prefixes[i]]]

\* a 200 answer that lists common prefixes after the empty Prefix element
AnyTablesPage(prefixes) ==
  [kind |-> "answer", status |-> 200,
   body |-> XmlBody(<<[tag |-> "Prefix", text |-> <<>>]>> \o PrefixElements(prefixes))]

\* the 200 answers to a page of listTables that the objects do not determine:
\* short pages, a page of max-keys prefixes, a broken one
AnyTablesPages(sent) ==
  {AnyTablesPage(prefixes) :
     prefixes \in SeqsUpTo({<<"t", "/">>, <<"u", "/">>}, ShortLen)
                    \cup (IF sent < MaxPages THEN {[i \in 1..chunkSize |-> TableKey(i)]}
                          ELSE {})}
    \cup {BrokenPage}

\* one page of listTables answered 200 with prefixes that the model's
\* objects do not determine
listTablesPageAny ==
  /\ task.pc = "page" /\ task.op = "listTables"
  /\ \E answer \in AnyTablesPages(Len(task.reqs)) :
       AfterPage(listTables_page(task.params, task.marker, task.ids, answer, objects),
                 answer)
  /\ UNCHANGED <<signIn, signOut, cache, calls, clock>>

NextList ==
  \/ CallListIds
  \/ listIdsPage
  \/ listIdsPageAny
  \/ CallListTables
  \/ listTablesPage
  \/ listTablesPageAny

SpecList == InitList /\ [][NextList]_vars

(***************************************************************************)
(* The signing specification: one client signs request after request       *)
(***************************************************************************)
\* the most headers a caller passes
MaxHeaders == 2

\* the days of the month and the seconds of the day the clock may show
Days == 2

Seconds == 2

HostA == <<"a", ".", "c">>

HostB == <<"b", ".", "c">>

Urls ==
  {[host |-> HostA,
    pathname |-> <<"/">> \o <<"b">> \o <<"/">> \o DocPath(<<"t">>, <<"a">>),
    searchParams |-> <<>>],
   [host |-> HostB,
    pathname |-> <<"/", "b", "/">>,
    searchParams |-> listParams(<<"t", "/">>)]}

Spaced == <<"x", " ", " ", "x">>

HeaderValues == {HostA, Spaced}

\* a content hash the caller computed
GivenHash == <<"h", "a", "s", "h">>

\* the headers a caller may pass: a Host header in either spelling, another
\* signable header, an unsignable one, a content hash
HeaderPairs ==
  <<<<"Host", HostA>>, <<"host", Spaced>>, <<"X-Custom", Spaced>>,
    <<"Content-Type", <<"j", "s", "o", "n">>>>, <<"X-Amz-Content-Sha256", GivenHash>>>>

\* the lists of at most n of these headers, in this order
HeaderLists(n) ==
  {SelectSeq(HeaderPairs, LAMBDA pair : pair \in chosen) :
     chosen \in {c \in SUBSET Range(HeaderPairs) : Cardinality(c) <= n}}

\* no body, a string, a byte buffer, and a body that is neither (a stream)
Requests ==
  {[method |-> "GET", body |-> NoBody],
   [method |-> "PUT", body |-> [kind |-> "string", text |-> <<"d", "o", "c">>]],
   [method |-> "PUT", body |-> [kind |-> "buffer", text |-> <<"d", "o", "c">>]],
   [method |-> "PUT", body |-> [kind |-> "stream", text |-> <<"d", "o", "c">>]]}

SignInputs ==
  {[method |-> r.method, url |-> url, baseHeaders |-> baseHeaders, body |-> r.body] :
     r \in Requests, url \in Urls, baseHeaders \in HeaderLists(MaxHeaders)}

InitSign ==
  /\ objects = <<>>
  /\ task = IdleTask
  /\ signIn \in SignInputs
  /\ signOut = NoSign
  /\ cache = {}
  /\ calls = NoCalls
  /\ clock = Midnight

\* what the client keeps of a call r of the signer
Certified(r) ==
  /\ signOut' = [threw |-> r.request.threw, error |-> r.request.error,
                 method |-> r.request.method, headers |-> r.request.headers,
                 body |-> r.request.body, datetime |-> r.request.datetime,
                 key |-> r.request.key, derived |-> r.derived]
  /\ cache' = r.cache

\* the client signs the request at some time of some day
Sign ==
  /\ signOut = NoSign
  /\ \E day \in 1..Days : \E second \in 1..Seconds :
       Certified(certify(signIn, ISODate(day, second), cache))
  /\ UNCHANGED <<objects, task, signIn, calls, clock>>

\* the client goes on to its next request
NextRequest ==
  /\ signOut # NoSign
  /\ signIn' \in SignInputs
  /\ signOut' = NoSign
  /\ UNCHANGED <<objects, task, cache, calls, clock>>

NextSign ==
  \/ Sign
  \/ NextRequest

SpecSign == InitSign /\ [][NextSign]_vars

(***************************************************************************)
(* The concurrent signing specification: the calls of one signer, each     *)
(* suspended at its awaits, while the clock runs                           *)
(***************************************************************************)
Callers == {1, 2}

\* the request each caller signs
CallerInput(i) ==
  [method |-> IF i = 1 THEN "GET" ELSE "PUT",
   url |-> [host |-> HostA,
            pathname |-> <<"/">> \o <<"b">> \o <<"/">> \o DocPath(<<"t">>, <<"a">>),
            searchParams |-> <<>>],
   baseHeaders |-> <<>>,
   body |-> IF i = 1 THEN NoBody ELSE [kind |-> "string", text |-> <<"d", "o", "c">>]]

IdleCall ==
  [pc |-> "idle", input |-> NoSign, datetime |-> <<>>, key |-> <<>>, hit |-> FALSE,
   out |-> NoSign]

InitCalls ==
  /\ objects = <<>>
  /\ task = IdleTask
  /\ signIn = NoSign
  /\ signOut = NoSign
  /\ cache = {}
  /\ calls = [i \in Callers |-> IdleCall]
  /\ clock = Midnight

\* time passes: a second, or the rest of the day
Tick ==
  /\ \/ clock[2] < Seconds /\ clock' = <<clock[1], clock[2] + 1>>
     \/ clock[1] < Days /\ clock' = <<clock[1] + 1, 1>>
  /\ UNCHANGED <<objects, task, signIn, signOut, cache, calls>>

\* (mutant) a signer that derives and caches its key without an await
signer_begin_Atomic(i) ==
  /\ calls[i].pc = "idle"
  /\ calls' = [calls EXCEPT ![i] =
       [pc |-> "sha256",
        input |-> CallerInput(i),
        datetime |-> ISODate(clock[1], clock[2]),
        key |-> deriveKey(datestr(ISODate(clock[1], clock[2]))),
        hit |-> CacheHas(cache, cacheKey(datestr(ISODate(clock[1], clock[2])))),
        out |-> NoSign]]
  /\ cache' = CacheSet(cache, cacheKey(datestr(ISODate(clock[1], clock[2]))),
                       deriveKey(datestr(ISODate(clock[1], clock[2]))))
  /\ UNCHANGED <<objects, task, signIn, signOut, clock>>

\* the call from its start to its first await: the clock reading, the
\* headers, the canonical strings, cache.get(cacheKey)
signer_begin(i) ==
  /\ calls[i].pc = "idle"
  /\ calls' = [calls EXCEPT ![i] =
       [pc |-> IF CacheHas(cache, cacheKey(datestr(ISODate(clock[1], clock[2]))))
               THEN "sha256" ELSE "kDate",
        input |-> CallerInput(i),
        datetime |-> ISODate(clock[1], clock[2]),
        key |-> IF CacheHas(cache, cacheKey(datestr(ISODate(clock[1], clock[2]))))
                THEN CacheGet(cache, cacheKey(datestr(ISODate(clock[1], clock[2]))))
                ELSE <<>>,
        hit |-> CacheHas(cache, cacheKey(datestr(ISODate(clock[1], clock[2])))),
        out |-> NoSign]]
  /\ UNCHANGED <<objects, task, signIn, signOut, cache, clock>>

\* (mutant) a derivation that takes its date from the clock as it is now
signer_kDate_ReadsClock(i) ==
  /\ calls[i].pc = "kDate"
  /\ calls' = [calls EXCEPT ![i].pc = "region",
                            ![i].key = createHMAC(<<"AWS4">> \o SecretKey,
                                                  datestr(ISODate(clock[1], clock[2])))]
  /\ UNCHANGED <<objects, task, signIn, signOut, cache, clock>>

\* const kDate = await createHMAC('AWS4' + secretKey, _datestr)
signer_kDate(i) ==
  /\ calls[i].pc = "kDate"
  /\ calls' = [calls EXCEPT ![i].pc = "region",
                            ![i].key = createHMAC(<<"AWS4">> \o SecretKey,
                                                  datestr(calls[i].datetime))]
  /\ UNCHANGED <<objects, task, signIn, signOut, cache, clock>>

\* const region = await createHMAC(kDate, _region)
signer_region(i) ==
  /\ calls[i].pc = "region"
  /\ calls' = [calls EXCEPT ![i].pc = "kService", ![i].key = createHMAC(@, Region)]
  /\ UNCHANGED <<objects, task, signIn, signOut, cache, clock>>

\* const kService = await createHMAC(region, SERVICE)
signer_kService(i) ==
  /\ calls[i].pc = "kService"
  /\ calls' = [calls EXCEPT ![i].pc = "kCredentials", ![i].key = createHMAC(@, SERVICE)]
  /\ UNCHANGED <<objects, task, signIn, signOut, cache, clock>>

\* (mutant) a signer that caches kService
cacheSet_kService(c, _datestr, kService) == CacheSet(c, cacheKey(_datestr), kService)

\* kCredentials = await createHMAC(kService, 'aws4_request');
\* cache.set(cacheKey, kCredentials)
cacheSet(c, _datestr, kService) ==
  CacheSet(c, cacheKey(_datestr), createHMAC(kService, <<"aws4_request">>))

signer_kCredentials(i) ==
  /\ calls[i].pc = "kCredentials"
  /\ calls' = [calls EXCEPT ![i].pc = "sha256",
                            ![i].key = createHMAC(@, <<"aws4_request">>)]
  /\ cache' = cacheSet(cache, datestr(calls[i].datetime), calls[i].key)
  /\ UNCHANGED <<objects, task, signIn, signOut, clock>>

\* await sha256encode(...) of the canonical request
signer_sha256(i) ==
  /\ calls[i].pc = "sha256"
  /\ calls' = [calls EXCEPT ![i].pc = "hmac"]
  /\ UNCHANGED <<objects, task, signIn, signOut, cache, clock>>

\* await createHMAC(kCredentials, ...) of the string to sign, headers.set, return
signer_hmac(i) ==
  /\ calls[i].pc = "hmac"
  /\ calls' = [calls EXCEPT ![i].pc = "done",
                            ![i].out = signWith(calls[i].input, calls[i].datetime,
                                                calls[i].key)]
  /\ UNCHANGED <<objects, task, signIn, signOut, cache, clock>>

\* the caller has its request and may call again
signer_return(i) ==
  /\ calls[i].pc = "done"
  /\ calls' = [calls EXCEPT ![i] = IdleCall]
  /\ UNCHANGED <<objects, task, signIn, signOut, cache, clock>>

NextCalls ==
  \/ Tick
  \/ \E i \in Callers :
       \/ signer_begin(i)
       \/ signer_kDate(i)
       \/ signer_region(i)
       \/ signer_kService(i)
       \/ signer_kCredentials(i)
       \/ signer_sha256(i)
       \/ signer_hmac(i)
       \/ signer_return(i)

SpecCalls == InitCalls /\ [][NextCalls]_vars

(***************************************************************************)
(* The query specification: the signer on URLs with any short query        *)
(***************************************************************************)
\* the most parameters a URL carries
MaxParams == 3

\* parameter names: the empty name, a name that needs no escape, and two
\* whose order changes when they are encoded ('-' < '/' but '-' > '%2F')
ParamNames == {<<>>, <<"a">>, <<"-">>, <<"/">>}

ParamValues == {<<"1">>, <<"2">>}

ParamLists == SeqsUpTo(ParamNames \X ParamValues, MaxParams)

QueryInputs ==
  {[method |-> "GET",
    url |-> [host |-> HostA, pathname |-> <<"/", "b", "/">>, searchParams |-> q],
    baseHeaders |-> <<>>,
    body |-> NoBody] : q \in ParamLists}

InitQuery ==
  /\ objects = <<>>
  /\ task = IdleTask
  /\ signIn \in QueryInputs
  /\ signOut = NoSign
  /\ cache = {}
  /\ calls = NoCalls
  /\ clock = Midnight

SpecQuery == InitQuery /\ [][Sign]_vars

(***************************************************************************)
(* The served specification: scans of a bucket that nothing else changes,  *)
(* every request answered by the store or failing; a request in flight is  *)
(* answered or fails in the end                                            *)
(***************************************************************************)
NextServed ==
  \/ CallListIds
  \/ listIdsPage
  \/ CallListTables
  \/ listTablesPage

SpecServed ==
  InitList /\ [][NextServed]_vars /\ WF_vars(listIdsPage) /\ WF_vars(listTablesPage)

(***************************************************************************)
(* The scan specification: two scans in flight, a step for each await of   *)
(* the loop of listIds and listTables.  calls.scans holds the position and *)
(* the locals of each scan, calls.heap every HTMLRewriter made: who made   *)
(* it, for which page, and the calls it has had.                           *)
(***************************************************************************)
Scanners == {1, 2}

\* a scan before it begins: no page requested, no rewriter in scope
IdleScan == [op |-> "idle", pc |-> "idle", page |-> 0, again |-> FALSE, rewriter |-> 0,
             result |-> "none"]

InitScans ==
  /\ objects = <<>>
  /\ task = IdleTask
  /\ signIn = NoSign
  /\ signOut = NoSign
  /\ cache = {}
  /\ calls = [scans |-> [i \in Scanners |-> IdleScan], heap |-> <<>>]
  /\ clock = Midnight

\* the scans with scan i at s
Scanned(i, s) == [calls.scans EXCEPT ![i] = s]

\* the heap after the rewriter of scan i has had these calls
Rewritten(i, called) == [calls.heap EXCEPT ![calls.scans[i].rewriter].calls = called]

\* listIds(vTable) or listTables() up to the loop
scan_begin(i) ==
  /\ calls.scans[i].pc = "idle"
  /\ \E op \in {"listIds", "listTables"} :
       calls' = [calls EXCEPT !.scans = Scanned(i, [IdleScan EXCEPT !.op = op,
                                                                     !.pc = "execute"])]
  /\ UNCHANGED <<objects, task, signIn, signOut, cache, clock>>

\* await this.execute(200, 'GET', ...); await reply.text(): the request
\* fails, or the page is read, full or not
scan_execute(i) ==
  /\ calls.scans[i].pc = "execute"
  /\ \/ calls' = [calls EXCEPT !.scans = Scanned(i, [calls.scans[i] EXCEPT
                                                        !.pc = "done", !.result = "throw"])]
     \/ \E again \in {b \in BOOLEAN : b => calls.scans[i].page < MaxPages} :
          calls' = [calls EXCEPT !.scans = Scanned(i, [calls.scans[i] EXCEPT
                                                         !.pc = "new", !.page = @ + 1,
                                                         !.again = again])]
  /\ UNCHANGED <<objects, task, signIn, signOut, cache, clock>>

\* const rewriter = new HTMLRewriter(...); rewriter.on(...)
scan_new(i) ==
  /\ calls.scans[i].pc = "new"
  /\ calls' = [scans |-> Scanned(i, [calls.scans[i] EXCEPT
                                       !.pc = "write", !.rewriter = Len(calls.heap) + 1]),
               heap |-> Append(calls.heap, [scan |-> i, page |-> calls.scans[i].page,
                                            calls |-> <<"new", "on">>])]
  /\ UNCHANGED <<objects, task, signIn, signOut, cache, clock>>

\* try { await rewriter.write(...) }: it rejects, and finally runs, or not
scan_write(i) ==
  /\ calls.scans[i].pc = "write"
  /\ \/ calls' = [scans |-> Scanned(i, [calls.scans[i] EXCEPT
                                          !.pc = "done", !.rewriter = 0,
                                          !.result = "throw"]),
                  heap |-> Rewritten(i, rewriterCalls(TRUE))]
     \/ calls' = [scans |-> Scanned(i, [calls.scans[i] EXCEPT !.pc = "end"]),
                  heap |-> Rewritten(i, <<"new", "on", "write">>)]
  /\ UNCHANGED <<objects, task, signIn, signOut, cache, clock>>

\* await rewriter.end(); finally { rewriter.free() }; while (...); return
scan_end(i) ==
  /\ calls.scans[i].pc = "end"
  /\ \E threw \in BOOLEAN :
       calls' = [scans |-> Scanned(i, [calls.scans[i] EXCEPT
                                         !.pc = IF ~threw /\ calls.scans[i].again
                                                THEN "execute" ELSE "done",
                                         !.rewriter = 0,
                                         !.result = IF threw THEN "throw"
                                                    ELSE IF calls.scans[i].again THEN "none"
                                                    ELSE "ids"]),
                    heap |-> Rewritten(i, rewriterCalls(FALSE))]
  /\ UNCHANGED <<objects, task, signIn, signOut, cache, clock>>

NextScans ==
  \E i \in Scanners :
    \/ scan_begin(i)
    \/ scan_execute(i)
    \/ scan_new(i)
    \/ scan_write(i)
    \/ scan_end(i)

SpecScans == InitScans /\ [][NextScans]_vars

(***************************************************************************)
(* The insert specification: two calls of Repository.insert in flight on   *)
(* table t of an empty bucket, a step for each await.  calls[i] holds the  *)
(* position, the document and the outcome of call i.                       *)
(***************************************************************************)
Inserters == {1, 2}

IdleInsert == [pc |-> "idle", doc |-> <<>>, served |-> TRUE, result |-> NoResult]

InitInserts ==
  /\ objects = <<>>
  /\ task = IdleTask
  /\ signIn = NoSign
  /\ signOut = NoSign
  /\ cache = {}
  /\ calls = [i \in Inserters |-> IdleInsert]
  /\ clock = Midnight

\* Repository.insert(document) up to its first await: the document gets an
\* _id if it has none
inserting_begin(i) ==
  /\ calls[i].pc = "idle"
  /\ \E document \in Docs \cup NewDocs : \E uuid \in UUIDs :
       calls' = [calls EXCEPT ![i].pc = "exists", ![i].doc = Identified(document, uuid)]
  /\ UNCHANGED <<objects, task, signIn, signOut, cache, clock>>

\* if (await this.driver.exists(...)) throw new Error(...): r is what exists gave
inserting_check(i, r, outcome) ==
  /\ objects' = r.ex.objects
  /\ calls' = [calls EXCEPT
       ![i].pc = IF r.result.value THEN "done" ELSE "insert",
       ![i].served = outcome.kind = "serve",
       ![i].result = IF r.result.value THEN Throw(AlreadyExists(calls[i].doc._id)) ELSE @]

\* await this.driver.exists(this.tableName, document._id)
inserting_exists(i) ==
  /\ calls[i].pc = "exists"
  /\ \E outcome \in Outcomes(200) :
       inserting_check(i, S3ODM_exists(<<"t">>, calls[i].doc._id, outcome, objects), outcome)
  /\ UNCHANGED <<task, signIn, signOut, cache, clock>>

\* return await this.driver.insert(...): r is what driver.insert gave
inserting_put(i, r, outcome) ==
  /\ objects' = r.ex.objects
  /\ calls' = [calls EXCEPT ![i].pc = "done",
                            ![i].served = @ /\ outcome.kind = "serve",
                            ![i].result = r.result]

\* await this.driver.insert(this.tableName, document)
inserting_insert(i) ==
  /\ calls[i].pc = "insert"
  /\ \E outcome \in Outcomes(200) :
       inserting_put(i, S3ODM_insert(<<"t">>, calls[i].doc, outcome, objects), outcome)
  /\ UNCHANGED <<task, signIn, signOut, cache, clock>>

NextInserts ==
  \E i \in Inserters :
    \/ inserting_begin(i)
    \/ inserting_exists(i)
    \/ inserting_insert(i)

SpecInserts == InitInserts /\ [][NextInserts]_vars

(***************************************************************************)
(* The repository specification: createRepository, then any call of the    *)
(* repository, with ids that are path names and ids that are paths         *)
(***************************************************************************)
\* the client: new S3ODM(accessKey, secretKey, hostname, bucket)
This == [hostname |-> HostA, bucket |-> Bucket]

\* createRepository(vTable): new Repository(this, vTable)
S3ODM_createRepository(driver, vTable) == [driver |-> driver, tableName |-> vTable]

\* what Response.json() rejects with on an empty body
SyntaxError ==
  [type |-> "SyntaxError", code |-> 0, message |-> <<<<"Unexpected end of JSON input">>>>]

\* (await ...).json(): the body of the reply parsed
Jsoned(r) ==
  IF r.result.kind = "throw" THEN r
  ELSE [ex |-> r.ex,
        result |-> IF r.ex.reply.body.kind = "json"
                   THEN Return("doc", JSONparse(r.ex.reply.body.text))
                   ELSE Throw(SyntaxError)]

\* Repository.deleteById(_id)
Repository_deleteById(tableName, _id, outcome, objs) ==
  Jsoned(S3ODM_deleteById(tableName, _id, outcome, objs))

Repository_deleteById_step ==
  /\ task.op = "Repository.deleteById" /\ task.pc = "run"
  /\ \E outcome \in Outcomes(204) :
       Finish(Repository_deleteById(task.repository.tableName, task.id, outcome, objects),
              "DELETE", outcome)
  /\ UNCHANGED <<signIn, signOut, cache, calls, clock>>

\* ids: a path name, and a path that leads to table u
RepositoryIds == {<<"a">>, <<".", ".", "/", "u", "/", "a">>}

RepositoryDocs == {[_id |-> i, name |-> SeedName] : i \in RepositoryIds}

\* a call of a repository that createRepository(vTable) gave
RepositoryBegin(repository, op, pc, id, doc) ==
  task' = [IdleTask EXCEPT !.op = op, !.pc = pc, !.vTable = repository.tableName,
                            !.id = id, !.doc = doc, !.repository = repository,
                            !.params = listParams(WithSlash(repository.tableName))]

RepositoryCall ==
  /\ Free
  /\ \E vTable \in Tables :
       \/ \E _id \in RepositoryIds : \E op \in {"Repository.findById", "Repository.deleteById"} :
            RepositoryBegin(S3ODM_createRepository(This, vTable), op, "run", _id, <<>>)
       \/ \E document \in RepositoryDocs \cup {[name |-> SeedName]} :
            RepositoryBegin(S3ODM_createRepository(This, vTable), "Repository.insert",
                            "exists", <<>>, document)
       \/ \E document \in RepositoryDocs :
            RepositoryBegin(S3ODM_createRepository(This, vTable), "Repository.update",
                            "exists", <<>>, document)
       \/ \E op \in {"Repository.deleteAll", "Repository.findAll"} :
            RepositoryBegin(S3ODM_createRepository(This, vTable), op, "page", <<>>, <<>>)
  /\ UNCHANGED <<objects, signIn, signOut, cache, calls, clock>>

\* a bucket with a document in table t or not, and one in table u or not
InitRepository ==
  /\ objects \in {a \o b :
                    a \in SeedObjects(DocPath(<<"t">>, <<"a">>),
                                      {JSONstringify([_id |-> <<"a">>, name |-> SeedName])}),
                    b \in SeedObjects(DocPath(<<"u">>, <<"a">>),
                                      {JSONstringify([_id |-> <<"a">>, name |-> SeedName])})}
  /\ task = IdleTask
  /\ signIn = NoSign
  /\ signOut = NoSign
  /\ cache = {}
  /\ calls = NoCalls
  /\ clock = Midnight

NextRepository ==
  \/ RepositoryCall
  \/ Repository_findById_step
  \/ Repository_deleteById_step
  \/ Repository_insert_exists
  \/ Repository_insert_put
  \/ Repository_update_exists
  \/ listIdsPage
  \/ Repository_deleteAll_delete
  \/ Repository_findAll_fetch

SpecRepository == InitRepository /\ [][NextRepository]_vars

(***************************************************************************)
(* Properties                                                              *)
(***************************************************************************)
Done(op) == task.op = op /\ task.pc = "done"

\* the previous call was this write, on the table and id of the present call
After(op) == task.prev.op = op /\ task.prev.vTable = task.vTable

\* C3: with no other writer, findById after a successful insert(table, doc)
\* returns doc, with _id = doc._id, and findById after a successful
\* deleteById(table, id) returns null.
C3_RoundTrip ==
  Done("findById") /\ task.last.kind = "serve" =>
    /\ After("insert") /\ task.prev.doc._id = task.id =>
         task.result = Return("doc", task.prev.doc) /\ task.result.value._id = task.id
    /\ After("deleteById") /\ task.prev.id = task.id => task.result = Null

C3_Witness ==
  /\ Done("findById") /\ task.last.kind = "serve"
  /\ After("insert") /\ task.prev.doc._id = task.id
  /\ task.result.kind = "doc"

\* C4: findById returns null exactly when the store answers 404 and reports
\* every other failure as a failure, for S3ODM.findById and Repository.findById.
C4_NullOnlyOn404 ==
  (Done("findById") \/ Done("Repository.findById")) =>
    /\ task.result = Null <=> task.last.status = 404
    /\ task.last.threw /\ task.last.status # 404 => task.result.kind = "throw"

\* C5: findById gives a document whose stored body has no _id the _id of the
\* path, sends nothing but its GET, and leaves every stored body as it was,
\* also when the stored _id disagrees with the path.
C5_ReadOnlyRepair ==
  [][task.op = "findById" /\ task.pc = "run" =>
       /\ objects' = objects
       /\ \A i \in 1..Len(task'.reqs) : task'.reqs[i].method = "GET"
       /\ task'.result.kind = "doc"
            /\ "_id" \notin DOMAIN JSONparse(BodyOf(objects, DocPath(task.vTable, task.id)))
          => task'.result.value._id = task.id]_vars

C5_Witness ==
  /\ Done("findById") /\ task.result.kind = "doc"
  /\ "_id" \notin DOMAIN JSONparse(BodyOf(objects, DocPath(task.vTable, task.id)))
  /\ task.result.value._id = task.id

\* C6: exists never rejects: it resolves true when the HEAD request returns
\* 200 and false for every other outcome.
C6_ExistsNeverRejects ==
  Done("exists") =>
    /\ task.result.kind = "bool"
    /\ task.result.value <=> task.last.status = 200

C6_Witness ==
  Done("exists") /\ task.last.kind = "neterr" /\ task.result = Return("bool", FALSE)

Includes(message, text) == \E i \in 1..Len(message) : message[i] = text

\* an exchange in which the store answered with a status
Answered == task.last.kind \in {"serve", "status", "answer"}

C8_DeleteAllDeletes ==
  After("Repository.deleteAll") /\ task.served =>
    /\ Done("listIds") => task.result = Return("ids", <<>>)
    /\ Done("findById") /\ (\E i \in 1..Len(task.prev.ids) : task.prev.ids[i] = task.id)
         => task.result = Null

\* C9: Repository.insert(doc) gives doc a generated UUID when it has no _id;
\* when a document with that _id is stored it rejects with 'already exists' and
\* sends no PUT; otherwise it stores the document at <table>/<_id>.json and
\* returns it.
C9_InsertChecksFirst ==
  [][/\ task.op = "Repository.insert" /\ task.pc = "exists" /\ task'.pc # "exists" =>
          /\ LacksId(task.doc) => task'.doc._id \in UUIDs
          /\ ~LacksId(task.doc) => task'.doc = task.doc
          /\ IF HasKey(objects, DocPath(task.vTable, task'.doc._id))
             THEN /\ task'.pc = "done"
                  /\ task'.result = Throw(AlreadyExists(task'.doc._id))
                  /\ \A i \in 1..Len(task'.reqs) : task'.reqs[i].method # "PUT"
             ELSE task'.pc = "insert" /\ objects' = objects
     /\ task.op = "Repository.insert" /\ task.pc = "insert" /\ task'.result.kind # "throw"
          /\ task'.pc = "done" =>
          /\ HasKey(objects', DocPath(task.vTable, task.doc._id))
          /\ BodyOf(objects', DocPath(task.vTable, task.doc._id)) = JSONstringify(task.doc)
          /\ task'.result = Return("doc", task.doc)]_vars

\* the objects of a table, the table's prefix marker object among them
Under(prefix) == SelectSeq(objects, LAMBDA o : StartsWith(o.key, prefix))

\* C1: against a store that answers every page with the next keys after
\* start-after, listIds returns the id of every object under <table>/ (but the
\* prefix marker, C2) once, in the store's order, and requests one page more
\* than the full pages the table fills: 1000 + 3 keys give 1003 ids in two
\* requests, fewer than 1000 keys cost one request.
C1_ListsEveryId ==
  Done("listIds") /\ task.served /\ task.result.kind = "ids" =>
    LET prefix == WithSlash(task.vTable)
        docs == SelectSeq(Under(prefix), LAMBDA o : o.key # prefix)
        _ids == task.result.value
    IN /\ _ids = [i \in 1..Len(docs) |-> StripJson(Substring(docs[i].key, Len(prefix)))]
       /\ Cardinality(Range(_ids)) = Len(_ids)
       /\ Len(task.reqs) = (Len(Under(prefix)) \div chunkSize) + 1
       /\ Len(Under(prefix)) < chunkSize => Len(task.reqs) = 1
       /\ Len(Under(prefix)) = chunkSize + Few => Len(_ids) = chunkSize + Few /\ Len(task.reqs) = 2

C1_Witness ==
  /\ Done("listIds") /\ task.served /\ task.result.kind = "ids"
  /\ Len(task.result.value) = chunkSize + Few
  /\ Len(task.reqs) = 2

\* C2: whatever the pages hold, no entry of the list comes from a key equal
\* to <table>/ .  (Of the keys of this model only that key gives the empty id.)
C2_NoPrefixMarker ==
  task.op # "listTables" =>
    /\ <<>> \notin Range(task.ids)
    /\ task.result.kind = "ids" => <<>> \notin Range(task.result.value)

\* the prefix marker came last on a second, full page, and the scan went on
C2_Witness ==
  /\ task.op = "listIds" /\ Len(task.reqs) = 2 /\ task.matches = chunkSize
  /\ Len(task.ids) = 2 * chunkSize - 1

Signed == signOut # NoSign /\ ~signOut.threw

Authorization(request) == HeadersGet(request.headers, "Authorization")

\* the canonical headers under a signature: hex(hmac(key, <<.., hex(sha256(request))>>))
CanonicalHeadersOf(signature) == signature[2][3][4][2][2][4]

IsHost(pair) == LowerName(pair[1]) = "host"

\* the request with no Host header, and with the Host header of a value put
\* first or last
HostVariants(input) ==
  LET bare == SelectSeq(input.baseHeaders, LAMBDA pair : ~IsHost(pair))
  IN {[input EXCEPT !.baseHeaders = h] :
        h \in {bare} \cup {<<<<name, value>>>> \o bare : name \in {"Host", "host"},
                                                     value \in HeaderValues}
                     \cup {bare \o <<<<name, value>>>> : name \in {"Host", "host"},
                                                      value \in HeaderValues}}

\* C10: signing with a Host header of any value and signing without it, at
\* the same timestamp, give the same SignedHeaders and the same signature, and
\* the host that is signed is the host of the URL.
C10_HostFromUrl ==
  Signed =>
    /\ \A input \in HostVariants(signIn) :
         LET other == certify(input, signOut.datetime, cache).request
         IN /\ Authorization(other).SignedHeaders = Authorization(signOut).SignedHeaders
            /\ Authorization(other).Signature = Authorization(signOut).Signature
    /\ LET canonicalHeaders == CanonicalHeadersOf(Authorization(signOut).Signature)
       IN \A i \in 1..Len(canonicalHeaders) :
            canonicalHeaders[i][1] = "host" => canonicalHeaders[i][3] = signIn.url.host

\* a request signed with a Host header that names another host than its URL
C10_Witness ==
  /\ Signed
  /\ \E i \in 1..Len(signIn.baseHeaders) :
       IsHost(signIn.baseHeaders[i]) /\ signIn.baseHeaders[i][2] # signIn.url.host
  /\ \E i \in 1..Len(Authorization(signOut).SignedHeaders) :
       Authorization(signOut).SignedHeaders[i] = "host"
DateStamp(day) == datestr(ISODate(day, 1))

\* every cache entry is the derived key of the day its cache key names
CacheSound(c) ==
  \A e \in c : \E day \in 1..Days :
    e[1] = cacheKey(DateStamp(day)) /\ e[2] = deriveKey(DateStamp(day))

\* C12: under every interleaving of signing calls, every cache entry equals
\* the key derived for the day of its cache key, an entry once stored keeps its
\* value (a second derivation stores the same value), and every call signs
\* with the key of its own date stamp.
C12_CacheNeverCorrupted ==
  [][/\ CacheSound(cache')
     /\ \A e \in cache : e \in cache'
     /\ \A e1 \in cache' : \A e2 \in cache' : e1[1] = e2[1] => e1 = e2
     /\ \A i \in Callers :
          /\ calls'[i].pc \in {"sha256", "hmac", "done"} =>
               calls'[i].key = deriveKey(datestr(calls'[i].datetime))
          /\ calls'[i].pc = "done" =>
               /\ calls'[i].out.key = deriveKey(datestr(calls'[i].datetime))
               /\ Authorization(calls'[i].out).Credential =
                    <<AccessKey, credentialString(datestr(calls'[i].datetime))>>]_vars

\* two calls that both missed the cache for the same day have both signed
C12_Witness ==
  /\ \A i \in Callers : calls[i].pc = "done" /\ ~calls[i].hit
  /\ datestr(calls[1].datetime) = datestr(calls[2].datetime)
\* the content hash under a signature: the last line of the canonical request
HashHeaderOf(signature) == signature[2][3][4][2][2][6]

\* the caller passed a content hash header
GaveHash(input) ==
  \E i \in 1..Len(input.baseHeaders) :
    LowerName(input.baseHeaders[i][1]) = "x-amz-content-sha256"

\* C13: with a string or byte buffer body and no content hash header from the
\* caller, the content hash of the canonical request is the SHA-256 of the
\* body; UNSIGNED-PAYLOAD is used only when there is no body; a content hash
\* header from the caller is used unchanged.
C13_BodyHashed ==
  Signed =>
    /\ GaveHash(signIn) => HashHeaderOf(Authorization(signOut).Signature) = GivenHash
    /\ ~GaveHash(signIn) /\ signIn.body.kind \in {"string", "buffer"} =>
         HashHeaderOf(Authorization(signOut).Signature)
           = buff2hex(sha256encode(signIn.body.text))
    /\ HashHeaderOf(Authorization(signOut).Signature) = UNSIGNED_PAYLOAD =>
         signIn.body.kind = "none"

\* C14: signing a body that is neither a string nor a byte buffer, with no
\* content hash header from the caller, fails with the invalid body error and
\* returns no signed request; with a content hash header from the caller the
\* same body is signed without error.
C14_InvalidBodyRejected ==
  signOut # NoSign /\ signIn.body.kind = "stream" =>
    /\ ~GaveHash(signIn) =>
         signOut.threw /\ signOut.error = InvalidBody /\ signOut.headers = <<>>
    /\ GaveHash(signIn) => ~signOut.threw
\* the canonical query string under a signature, as its list of k=v pieces
CanonicalQueryOf(signature) == signature[2][3][4][2][2][3]

\* the lists that hold the same parameters in another order
Orderings(params) ==
  {[i \in 1..Len(params) |-> params[f[i]]] :
     f \in {g \in [1..Len(params) -> 1..Len(params)] :
              \A i \in 1..Len(params) : \A j \in 1..Len(params) : g[i] = g[j] => i = j}}

\* the first occurrences of the non-empty names of a list
FirstOccurrences(params) ==
  {params[i] : i \in {j \in 1..Len(params) :
     params[j][1] # <<>> /\ \A k \in 1..(j - 1) : params[k][1] # params[j][1]}}

\* the canonical query string lists the first occurrence of each non-empty
\* name, each key and value encoded, in ascending order of the encoded keys
FirstOccurrencesSorted(params, query) ==
  /\ Range(query) =
       {<<encodeRFC3986(encodeURIComponent(pair[1])), "=",
          encodeRFC3986(encodeURIComponent(pair[2]))>> : pair \in FirstOccurrences(params)}
  /\ \A i \in 1..Len(query) : \A j \in 1..Len(query) :
       i < j => StrLess(query[i][1], query[j][1])

\* C15 (as claimed): any two orderings of the same parameters canonicalize to
\* the same string, sorted by encoded key and then encoded value; a name that
\* occurs more than once keeps its first occurrence and empty names are dropped.
C15_AnyOrder ==
  Signed =>
    /\ \A other \in Orderings(signIn.url.searchParams) :
         encodedSearch(other) = CanonicalQueryOf(Authorization(signOut).Signature)
    /\ FirstOccurrencesSorted(signIn.url.searchParams,
                              CanonicalQueryOf(Authorization(signOut).Signature))

\* C15 (amended): the canonical query string holds the first occurrence of
\* each non-empty name, each key and value encoded, in ascending order of the
\* encoded keys; it is the same for every ordering of the parameters that
\* leaves each name's first occurrence the same (every ordering, when no name
\* occurs twice).
C15_FirstOccurrenceOrder ==
  Signed =>
    /\ FirstOccurrencesSorted(signIn.url.searchParams,
                              CanonicalQueryOf(Authorization(signOut).Signature))
    /\ \A other \in Orderings(signIn.url.searchParams) :
         FirstOccurrences(other) = FirstOccurrences(signIn.url.searchParams) =>
           encodedSearch(other) = CanonicalQueryOf(Authorization(signOut).Signature)

\* a signed URL of three parameters of which the first two change places
\* when they are encoded
C15_Witness ==
  /\ Signed
  /\ Len(signIn.url.searchParams) = MaxParams
  /\ signIn.url.searchParams[1][1] = <<"-">>
  /\ signIn.url.searchParams[2][1] = <<"/">>
  /\ CanonicalQueryOf(Authorization(signOut).Signature)[1][1] = <<"%", "2", "F">>
\* the calls of S3ODM that make one request
OneRequestOps == {"findById", "exists", "insert", "deleteById", "deleteByIds"}

\* C16: a call of findById, exists, insert, deleteById or deleteByIds is over
\* after one request (none when signing the request failed), and each turn of
\* the listing loop sends one request; a request that fails ends the call at
\* once with that failure, with false for exists, and nothing more is sent.
C16_NoRetry ==
  [][task.pc # "idle" /\ task.pc # "done" /\ task.op \in OneRequestOps \cup {"listIds"} =>
       /\ Len(task'.reqs) = Len(task.reqs) + (IF task'.last.kind = "signerr" THEN 0 ELSE 1)
       /\ task.op \in OneRequestOps => task'.pc = "done" /\ Len(task'.reqs) <= 1
       /\ task'.last.threw =>
            /\ task'.pc = "done"
            /\ task'.result = IF task.op = "exists" THEN Return("bool", FALSE)
                              ELSE IF task.op = "findById" /\ task'.last.status = 404 THEN Null
                              ELSE Throw(task'.last.error)]_vars

\* an insert whose only request met a broken connection
C16_Witness ==
  /\ Done("insert") /\ task.last.kind = "neterr"
  /\ Len(task.reqs) = 1 /\ task.result = Throw(FetchError)

\* the scans of S3ODM
ListingOps == {"listIds", "listTables"}

\* C17: when the request of a page of listIds or listTables fails (the request
\* cannot be signed, the connection breaks, the status is not 200), the call is
\* over with that failure as its rejection: it sends nothing more and returns
\* no list, whatever the earlier pages gave.
C17_FailedPageRejects ==
  [][task.op \in ListingOps /\ task.pc = "page" /\ task'.last.threw =>
       /\ task'.last.kind \in {"status", "neterr", "signerr"}
       /\ task'.pc = "done"
       /\ task'.result = Throw(task'.last.error)
       /\ task'.result.value = <<>>
       /\ Len(task'.reqs) <= Len(task.reqs) + 1
       /\ task'.ids = task.ids]_vars

\* a listTables whose first page gave 1000 names and whose second request met
\* an error status
C17_Witness ==
  /\ Done("listTables") /\ task.last.kind = "status" /\ task.last.status = 500
  /\ Len(task.reqs) = 2 /\ Len(task.ids) = chunkSize
  /\ task.result = Throw(HttpException(500))

\* how often a rewriter has had this call
Called(instance, call) ==
  Cardinality({k \in 1..Len(instance.calls) : instance.calls[k] = call})

\* the scan that has this rewriter in scope
Holds(i, n) == calls.scans[i].rewriter = n

\* C18: a rewriter is made for one page of one scan, after the page has been
\* read, and freed once: it is in scope of the scan that made it until it is
\* freed and of no other; a scan has none in scope when it requests a page and
\* when it is over, by return or by any failure, a rejecting write included;
\* no page has two and no two pages share one.
C18_RewriterPerPage ==
  /\ \A n \in 1..Len(calls.heap) :
       /\ calls.heap[n].calls[1] = "new" /\ Called(calls.heap[n], "new") = 1
       /\ Called(calls.heap[n], "free") <= 1
       /\ Called(calls.heap[n], "free") = 1 =>
            calls.heap[n].calls[Len(calls.heap[n].calls)] = "free"
       /\ Called(calls.heap[n], "free") = 0 <=> Holds(calls.heap[n].scan, n)
       /\ \A i \in Scanners \ {calls.heap[n].scan} : ~Holds(i, n)
       /\ calls.heap[n].page <= calls.scans[calls.heap[n].scan].page
       /\ \A k \in 1..Len(calls.heap) \ {n} :
            calls.heap[k].scan = calls.heap[n].scan => calls.heap[k].page # calls.heap[n].page
  /\ \A i \in Scanners :
       /\ calls.scans[i].pc \in {"idle", "execute", "new", "done"} => calls.scans[i].rewriter = 0
       /\ calls.scans[i].pc \in {"write", "end"} =>
            /\ calls.scans[i].rewriter \in 1..Len(calls.heap)
            /\ calls.heap[calls.scans[i].rewriter].page = calls.scans[i].page
       /\ Cardinality({n \in 1..Len(calls.heap) : calls.heap[n].scan = i})
            = calls.scans[i].page - (IF calls.scans[i].pc = "new" THEN 1 ELSE 0)

\* a scan that failed on the write of its second page, its rewriter freed,
\* while the other scan is between write and end with its own
C18_Witness ==
  \E i, j \in Scanners :
    /\ calls.scans[i].pc = "done" /\ calls.scans[i].result = "throw" /\ calls.scans[i].page = 2
    /\ \E n \in 1..Len(calls.heap) :
         /\ calls.heap[n].scan = i /\ calls.heap[n].page = 2
         /\ calls.heap[n].calls = <<"new", "on", "write", "free">>
    /\ calls.scans[j].pc = "end" /\ calls.scans[j].rewriter # 0

\* the _id of a document, <<>> when it has none
IdOf(document) == IF "_id" \in DOMAIN document THEN document._id ELSE <<>>

\* the calls that give back one document read, and those that store one
ReadOps == {"findById", "Repository.findById"}

WriteOps == {"insert", "Repository.insert", "Repository.update"}

\* C19: the document that findById gives has the id that was asked for as
\* its _id, each document that findAll gives has the listed id it was read
\* with, and the document a served insert or update gives back is stored at
\* <table>/<_id>.json with that _id in its body.
C19_IdIsPathName ==
  /\ task.pc = "done" /\ task.op \in ReadOps /\ task.result.kind = "doc" =>
       IdOf(task.result.value) = task.id
  /\ task.op = "Repository.findAll" =>
       \A k \in 1..Len(task.docs) :
         task.docs[k].kind = "doc" => IdOf(task.docs[k].value) = task.ids[k]
  /\ task.pc = "done" /\ task.op \in WriteOps /\ task.result.kind = "doc"
       /\ task.last.kind = "serve" =>
       /\ HasKey(objects, DocPath(task.vTable, IdOf(task.result.value)))
       /\ IdOf(JSONparse(BodyOf(objects, DocPath(task.vTable, IdOf(task.result.value)))))
            = IdOf(task.result.value)

\* the calls of a repository
RepositoryOps ==
  {"Repository.findById", "Repository.deleteById", "Repository.insert", "Repository.update",
   "Repository.deleteAll", "Repository.findAll"}

\* C20: the repository that createRepository(t) gives has tableName t and
\* the client as its driver, and every request of a call of it is about keys
\* under t/ only: the object it reads, writes or deletes, the prefix it lists,
\* the keys of its delete manifest.
C20_OnlyUnderTable ==
  task.op \in RepositoryOps =>
    /\ task.repository.driver = This
    /\ task.repository.tableName = task.vTable
    /\ \A i \in 1..Len(task.reqs) : \A key \in task.reqs[i].keys :
         StartsWith(key, WithSlash(task.repository.tableName))

\* the top-level prefixes of the bucket, each once, in key order
TablesOf(objs) ==
  SelectSeq(ListEntries(objs, <<>>, Slash), LAMBDA el : el.tag = "Prefix")

\* what a scan has to list: the objects under the table's prefix for listIds,
\* the top-level prefixes for listTables
Listable(t) ==
  IF t.op = "listTables" THEN Len(TablesOf(objects)) ELSE Len(Under(WithSlash(t.vTable)))

\* C21: after a page of listIds or listTables is parsed the scan requests a
\* further page exactly when the page gave 1000 matches, and returns what it
\* has accumulated exactly when it gave fewer; against a store that serves
\* every page, a scan of n entries costs n div 1000 + 1 requests (1000 * k
\* entries cost k + 1) and every table listTables has to list is in its result.
C21_FullPageMeansMore ==
  [][task.op \in ListingOps /\ task.pc = "page" /\ task'.result.kind # "throw" =>
       /\ task'.pc = "page" <=> task'.matches = chunkSize
       /\ task'.pc = "done" <=> task'.matches < chunkSize
       /\ task'.pc = "done" => task'.result = Return("ids", task'.ids)
       /\ task'.pc = "done" /\ task'.served =>
            /\ Len(task'.reqs) = (Listable(task) \div chunkSize) + 1
            /\ task.op = "listTables" => Len(task'.result.value) = Listable(task)]_vars

\* the parameters a scan builds before its loop
BaseParams(t) == IF t.op = "listTables" THEN tablesParams ELSE listParams(WithSlash(t.vTable))

\* a list of parameters without start-after
Unmarked(params) == SelectSeq(params, LAMBDA pair : pair[1] # StartAfterParam)

\* the keys (for listTables the prefixes) of a page that move the marker: all
\* but the prefix marker object of the table
Markers(t, xml) ==
  SelectSeq(xml, LAMBDA el :
    /\ el.tag = (IF t.op = "listTables" THEN "Prefix" ELSE "Key")
    /\ el.text # <<>>
    /\ t.op = "listTables" \/ el.text # WithSlash(t.vTable))

\* C22: every page request of a scan has the list-type, max-keys and prefix
\* (and delimiter, for listTables) the scan began with; the first request has
\* no start-after, and a later one has start-after exactly when the pages
\* parsed so far held a key (a prefix) other than the prefix marker object,
\* and then it is the last of them.
C22_OnlyStartAfterChanges ==
  [][task.op \in ListingOps /\ task.pc = "page" =>
       /\ Unmarked(task'.params) = BaseParams(task)
       /\ ParamsHas(task'.params, DelimiterParam) <=> task.op = "listTables"
       /\ ParamsHas(task'.params, StartAfterParam) <=> task.marker # <<>>
       /\ task.marker # <<>> => ParamsGet(task'.params, StartAfterParam) = task.marker
       /\ task.reqs = <<>> => task.marker = <<>>
       /\ task'.marker =
            IF task'.last.threw \/ task'.result.kind = "throw" \/ Markers(task, task'.xml) = <<>>
            THEN task.marker
            ELSE Markers(task, task'.xml)[Len(Markers(task, task'.xml))].text]_vars

\* the second request of a listIds whose first page was full and had the
\* prefix marker object in it: start-after is the key of the 999th document
C22_Witness ==
  /\ task.op = "listIds" /\ Len(task.reqs) = 2
  /\ ParamsHas(task.params, StartAfterParam)
  /\ ParamsGet(task.params, StartAfterParam) = FillKey(<<"t", "/">>, chunkSize - 1)

\* C23: against a store that serves each page with the keys (the prefixes)
\* after start-after in ascending order, every request of a scan after the
\* first carries a start-after, greater than the one before; the list the
\* scan accumulates holds no entry twice; the scan makes no more requests
\* than the store's content has pages, and it ends, returning or failing.
C23_MarkerAdvances ==
  /\ [][task.op \in ListingOps /\ task.pc = "page" =>
          /\ task.reqs # <<>> =>
               /\ ParamsHas(task'.params, StartAfterParam)
               /\ ParamsHas(task.params, StartAfterParam) =>
                    StrLess(ParamsGet(task.params, StartAfterParam),
                            ParamsGet(task'.params, StartAfterParam))
          /\ Cardinality(Range(task'.ids)) = Len(task'.ids)
          /\ Len(task'.reqs) <= (Listable(task) \div chunkSize) + 1]_vars
  /\ (task.pc = "page") ~> (task.pc = "done")

\* a listTables of 2000 tables: 1000 names on each of two pages and an empty
\* third page
C23_Witness ==
  /\ Done("listTables") /\ task.served /\ task.result.kind = "ids"
  /\ Len(task.reqs) = 3 /\ Len(task.result.value) = 2 * chunkSize
  /\ ParamsGet(task.params, StartAfterParam) = TableKey(2 * chunkSize)

\* the call is between its cache lookup and its cache insert
Deriving(i) == calls[i].pc \in {"kDate", "region", "kService", "kCredentials"}

\* the cache key of the call
KeyOfCall(i) == cacheKey(datestr(calls[i].datetime))

\* C24 (as stated): while a signing call is between its cache lookup and its
\* cache insert no other signing call takes a step.
C24_SigningAtomic ==
  [][\A i \in Callers : Deriving(i) => \A j \in Callers \ {i} : calls'[j] = calls[j]]_vars

\* C24 (amended): a signing call runs in steps that end at its awaits, one
\* call at a time; its cache lookup is one step with its start, and a miss
\* leaves it suspended before its insert, where other calls may run; the cache
\* changes only at the insert of a call that missed, and an insert for a key
\* that another call has cached meanwhile leaves the cache as it is.
C24_SuspendsAtAwaits ==
  [][/\ \A i \in Callers : calls'[i] # calls[i] =>
          \A j \in Callers \ {i} : calls'[j] = calls[j]
     /\ \A i \in Callers : calls[i].pc = "idle" /\ calls'[i].pc # "idle" =>
          /\ calls'[i].hit <=> CacheHas(cache, cacheKey(datestr(calls'[i].datetime)))
          /\ calls'[i].pc = IF calls'[i].hit THEN "sha256" ELSE "kDate"
          /\ cache' = cache
     /\ cache' # cache =>
          \E i \in Callers :
            /\ calls[i].pc = "kCredentials" /\ calls'[i].pc = "sha256" /\ ~calls[i].hit
            /\ cache' = CacheSet(cache, KeyOfCall(i), deriveKey(datestr(calls[i].datetime)))
     /\ \A i \in Callers :
          calls[i].pc = "kCredentials" /\ calls'[i].pc = "sha256"
            /\ CacheHas(cache, KeyOfCall(i)) => cache' = cache]_vars

\* a call that missed is about to insert a key that another call, which ran
\* between its lookup and now, has already cached
C24_Witness ==
  \E i \in Callers :
    /\ calls[i].pc = "kCredentials" /\ ~calls[i].hit
    /\ CacheHas(cache, KeyOfCall(i))

\* ---------------------------------------------------------------------------
\* C25: one clock reading per signing call

\* the date inside a derived signing key (the message of its innermost HMAC)
DateOfKey(key) == key[2][2][2][3]

\* the date inside a cache key [secretKey, _datestr, _region, SERVICE].join()
DateOfCacheKey(k) == k[2]

\* the date stamp of the credential scope of an Authorization header
DateOfScope(authorization) == authorization.Credential[2][1]

\* C25: the date stamp of the credential scope, the first eight characters of
\* X-Amz-Date, the date in the cache key and the date the signing key was
\* derived from are one value, read from the clock once when the call starts;
\* the clock moving on during the call, and calls of other days, change none
\* of them.
C25_OneClockReading ==
  [][\A i \in Callers :
       /\ calls[i].pc = "idle" /\ calls'[i].pc # "idle" =>
            calls'[i].datetime = ISODate(clock[1], clock[2])
       /\ calls[i].pc # "idle" /\ calls'[i].pc # "idle" =>
            calls'[i].datetime = calls[i].datetime
       /\ calls[i].pc = "kCredentials" /\ calls'[i].pc # "kCredentials" =>
            \E e \in cache' :
              /\ DateOfCacheKey(e[1]) = SubSeq(calls[i].datetime, 1, 8)
              /\ DateOfKey(e[2]) = SubSeq(calls[i].datetime, 1, 8)
              /\ e[2] = calls'[i].key
       /\ calls'[i].pc = "done" /\ ~calls'[i].out.threw =>
            LET stamp == SubSeq(calls'[i].datetime, 1, 8)
                sent == calls'[i].out
            IN  /\ SubSeq(HeadersGet(sent.headers, "X-Amz-Date"), 1, 8) = stamp
                /\ DateOfScope(Authorization(sent)) = stamp
                /\ DateOfKey(sent.key) = stamp
                /\ \E e \in cache' :
                     DateOfCacheKey(e[1]) = stamp /\ e[2] = sent.key]_vars

\* a call that started on day 1 has signed after midnight, next to a call of
\* day 2 that is still deriving its key
C25_Witness ==
  \E i \in Callers : \E j \in Callers \ {i} :
    /\ calls[i].pc = "done" /\ ~calls[i].out.threw /\ ~calls[i].hit
    /\ calls[i].datetime = ISODate(1, 2)
    /\ clock[1] = 2
    /\ calls[j].pc \in {"kDate", "region", "kService", "kCredentials"}
    /\ calls[j].datetime = ISODate(2, 1)

\* ---------------------------------------------------------------------------
\* C26: listIds lists one table

TableT == <<"t", "/">>

\* the ids of the documents stored under t/, in key order
IdsOfT ==
  LET docs == SelectSeq(objects, LAMBDA o : Len(o.key) > 2 /\ SubSeq(o.key, 1, 2) = TableT)
  IN  [i \in 1..Len(docs) |-> StripJson(SubSeq(docs[i].key, 3, Len(docs[i].key)))]

\* C26: listIds('t') and listIds('t/') both list with the prefix t/, so
\* every id comes from a key that begins with t/, the documents of a table
\* whose name starts with t (tt/) are never listed, and the two calls return
\* the same list.
C26_ListsOneTable ==
  /\ task.op = "listIds" =>
       /\ task.vTable \in {<<"t">>, TableT}
       /\ ParamsGet(task.params, PrefixParam) = TableT
       /\ \A i \in 1..Len(task.reqs) : task.reqs[i].keys = {TableT}
  /\ Done("listIds") /\ task.served /\ task.result.kind = "ids" =>
       /\ task.result.value = IdsOfT
       /\ \A i \in 1..Len(task.result.value) :
            \E j \in 1..Len(objects) :
              /\ objects[j].key \in {TableT \o task.result.value[i],
                                     TableT \o task.result.value[i] \o DotJson}
              /\ objects[j].key # <<"t", "t", "/", "a", ".", "j", "s", "o", "n">>

\* listIds('t'), given without the slash, has listed a table of more than a
\* page next to the table tt
C26_Witness ==
  /\ Done("listIds") /\ task.served /\ task.result.kind = "ids"
  /\ task.vTable = <<"t">>
  /\ Len(task.result.value) = chunkSize + Few
  /\ \E j \in 1..Len(objects) :
       objects[j].key = <<"t", "t", "/", "a", ".", "j", "s", "o", "n">>

\* ---------------------------------------------------------------------------
\* C27: concurrent inserts of one _id

\* the object that holds the document of insert call i
HoldsDocOf(objs, i) ==
  \E j \in 1..Len(objs) :
    /\ objs[j].key = DocPath(<<"t">>, calls[i].doc._id)
    /\ objs[j].text = JSONstringify(calls[i].doc)

Resolved(i) == calls[i].pc = "done" /\ calls[i].result.kind = "doc"

\* C27: of two concurrent inserts of one _id that the table does not hold,
\* with every request served, at most one resolves and the other rejects
\* with 'already exists', and the document a resolved insert wrote is never
\* replaced by another insert.
C27_OneInsertWins ==
  [][(\A k \in Inserters : calls'[k].served) =>
       \A i \in Inserters : \A j \in Inserters \ {i} :
         /\ Resolved(i)' /\ Resolved(j)' => calls'[i].doc._id # calls'[j].doc._id
         /\ Resolved(i) /\ HoldsDocOf(objects, i) => HoldsDocOf(objects', i)
         /\ calls'[i].pc = "done" /\ calls'[j].pc = "done"
            /\ calls'[i].doc._id = calls'[j].doc._id /\ Resolved(i)' =>
              calls'[j].result = Throw(AlreadyExists(calls'[j].doc._id))]_vars

\* ---------------------------------------------------------------------------
\* C28: insert and a failed existence check

\* every object of objs is in after with the text it had
Kept(objs, after) ==
  \A j \in 1..Len(objs) :
    \E k \in 1..Len(after) : after[k].key = objs[j].key /\ after[k].text = objs[j].text

\* C28: Repository.insert never overwrites a stored document; when its HEAD
\* check fails for a reason other than 404 (403, 500, a network error) it
\* sends no PUT.
C28_FailedCheckSendsNoPut ==
  [][task.op = "Repository.insert" =>
       /\ Kept(objects, objects')
       /\ task.pc = "exists" /\ task'.last.kind # "serve" /\ task'.last.status # 404 =>
            /\ task'.pc = "done"
            /\ \A i \in 1..Len(task'.reqs) : task'.reqs[i].method # "PUT"
       /\ task.pc = "insert" =>
            task.last.method = "HEAD" /\ (task.last.kind = "serve" \/ task.last.status = 404)]_vars

\* ---------------------------------------------------------------------------
\* C29: Repository.deleteById and the empty 204 reply

\* C29: Repository.deleteById resolves whenever the store answers the DELETE
\* with 204, and rejects only when the DELETE request itself fails.
C29_DeleteResolvesOn204 ==
  Done("Repository.deleteById") =>
    /\ task.last.method = "DELETE"
    /\ task.last.status = 204 /\ ~task.last.threw => task.result.kind # "throw"
    /\ task.result.kind = "throw" => task.last.threw

\* ---------------------------------------------------------------------------
\* C30: listTables next to root-level objects

\* the names of the top-level prefixes of the bucket, in key order
TableNames ==
  [i \in 1..Len(TablesOf(objects)) |->
     SubSeq(TablesOf(objects)[i].text, 1, Len(TablesOf(objects)[i].text) - 1)]

\* C30: listTables returns every top-level prefix of the bucket exactly once,
\* without its trailing slash, also when root-level objects share the pages
\* with the prefixes.
C30_EveryTableOnce ==
  Done("listTables") /\ task.served /\ task.result.kind = "ids" =>
    /\ task.result.value = TableNames
    /\ Cardinality(Range(task.result.value)) = Len(task.result.value)
====
